---- MODULE Spec2Model ----
(***************************************************************************)
(* State-machine model of the MYR Surgical backend (src/server.js with     *)
(* the Mongoose schemas under src/models and src/unnamed/part_002).        *)
(*                                                                         *)
(* Every HTTP request occupies a request slot.  A handler is cut into one  *)
(* action per stretch of code that runs without yielding: the action that  *)
(* receives the request runs the middleware chain and the handler up to    *)
(* its first `await`; each later action is the awaited database or image   *)
(* host call together with the code that follows it up to the next await.  *)
(***************************************************************************)
EXTENDS Integers, Sequences, FiniteSets, TLC

VARIABLES
    sessionStore,   \* ids of the sessions whose stored record has loggedIn = true
    products,       \* the Product collection (set of documents)
    orders,         \* the Order collection
    banners,        \* the Banner collection
    cloudinary,     \* public ids of the images held by the remote image host
    uploadDir,      \* temporary files present in uploads/
    reqs,           \* request slot -> request being handled and its response
    immediates,     \* callbacks queued with setImmediate, not yet run
    mailbox,        \* order notifications: <<orderId, "sent" | "failed">>
    now,            \* the clock read by new Date() / Date.now()
    nextId,         \* source of fresh identifiers (ObjectIds, file names, public ids)
    faults,         \* collaborators that currently fail: "db", "cloudinary", "smtp"
    toggleTrace     \* history: banner _id -> the last values of its active flag

vars == <<sessionStore, products, orders, banners, cloudinary, uploadDir, reqs,
          immediates, mailbox, now, nextId, faults, toggleTrace>>

----------------------------------------------------------------------------
(* Bounds of the model. *)

\* Number of fresh identifiers the model hands out (documents, uploads).
MaxIds == 3

\* Last instant of the model's clock; instants are 0 .. MaxTime.
MaxTime == 2

Requests == {"r1", "r2"}
SeqRequests == {"r1"}
SessionIds == {"s1"}

----------------------------------------------------------------------------
(* JSON values as they arrive in req.body: every value carries its type.   *)

Undefined == [t |-> "undefined", n |-> 0, s |-> "", items |-> <<>>]
Null == [t |-> "null", n |-> 0, s |-> "", items |-> <<>>]
Num(x) == [t |-> "number", n |-> x, s |-> "", items |-> <<>>]
Str(x) == [t |-> "string", n |-> 0, s |-> x, items |-> <<>>]
Arr(xs) == [t |-> "array", n |-> 0, s |-> "", items |-> xs]
Bool(b) == [t |-> "boolean", n |-> IF b THEN 1 ELSE 0, s |-> "", items |-> <<>>]

\* JavaScript truthiness, as used by `!x` and `x || y`.
Truthy(v) ==
    CASE v.t = "number" -> v.n # 0
      [] v.t = "string" -> v.s # ""
      [] v.t = "array" -> TRUE
      [] v.t = "boolean" -> v.n = 1
      [] OTHER -> FALSE


Range(f) == {f[x] : x \in DOMAIN f}

----------------------------------------------------------------------------
(* Mongoose casting and validation of schema paths (src/models).           *)

\* Number(s) for the strings of the model: the numeric ones and no other.
NumericStrings == [s \in {"0", "2"} |-> IF s = "0" THEN 0 ELSE 2]

CastOk(x) == [ok |-> TRUE, null |-> FALSE, n |-> x, s |-> ""]
CastOkStr(x) == [ok |-> TRUE, null |-> FALSE, n |-> 0, s |-> x]
CastNull == [ok |-> TRUE, null |-> TRUE, n |-> 0, s |-> ""]
CastError == [ok |-> FALSE, null |-> FALSE, n |-> 0, s |-> ""]

\* A path declared { type: Number }.
castNumber(v) ==
    CASE v.t = "number" -> CastOk(v.n)
      [] v.t = "string" /\ v.s = "" -> CastNull
      [] v.t = "string" /\ v.s \in DOMAIN NumericStrings -> CastOk(NumericStrings[v.s])
      [] v.t \in {"undefined", "null"} -> CastNull
      [] OTHER -> CastError

\* A path declared { type: String }.
castString(v) ==
    CASE v.t = "string" -> CastOkStr(v.s)
      [] v.t = "number" -> CastOkStr(ToString(v.n))
      [] v.t \in {"undefined", "null"} -> CastNull
      [] OTHER -> CastError

\* { required: true } on a Number path, on a String path.
requiredNumber(c) == c.ok /\ ~c.null
requiredString(c) == c.ok /\ ~c.null /\ c.s # ""

\* An optional String path with default null.
optionalString(c) == c.ok

----------------------------------------------------------------------------
(* Requests and responses.                                                 *)

NoResponse == [status |-> 0, body |-> <<>>]
IdleReq == [pc |-> "idle", ep |-> "", sid |-> "", in |-> <<>>, loc |-> <<>>,
            res |-> NoResponse]

\* A slot can take a new request when it holds none, an answered one or one
\* that will never be answered.
Free(r) == reqs[r].pc \in {"idle", "done", "hung"}

Receive(r, ep, sid, in, pc, loc) ==
    [reqs EXCEPT ![r] = [pc |-> pc, ep |-> ep, sid |-> sid, in |-> in,
                         loc |-> loc, res |-> NoResponse]]

\* res.status(status).json(body) as the last thing a request does.
Answer(r, ep, sid, in, status, body) ==
    [reqs EXCEPT ![r] = [pc |-> "done", ep |-> ep, sid |-> sid, in |-> in,
                         loc |-> <<>>, res |-> [status |-> status, body |-> body]]]

Respond(r, status, body) ==
    [reqs EXCEPT ![r].pc = "done",
                 ![r].res = [status |-> status, body |-> body]]

Up(svc) == svc \notin faults

CanAllocate == nextId <= MaxIds

----------------------------------------------------------------------------
(* Sessions and the admin credential (server.js 87-184).                   *)

\* process.env.ADMIN_USER and the plaintext whose bcrypt hash is ADMIN_HASH.
ADMIN == [username |-> "admin", password |-> [hashOf |-> "secret"]]

Usernames == {Str("admin"), Str("guest"), Undefined}
Passwords == {Str("secret"), Str("wrong"), Undefined}

\* bcrypt.compare(data, hash): rejects unless both are strings.
bcryptCompare(data, hash) ==
    IF data.t # "string"
    THEN [threw |-> TRUE, match |-> FALSE]
    ELSE [threw |-> FALSE, match |-> data.s = hash.hashOf]

\* What becomes of a request whose async handler rejects outside any try:
\* Express 4 leaves it unanswered, Express 5 hands it to the default error
\* handler (500).  The repository pins no version.
UnhandledOutcomes == {0, 500}

Unhandled(r, ep, sid, in, outcome) ==
    IF outcome = 0
    THEN [reqs EXCEPT ![r] = [pc |-> "hung", ep |-> ep, sid |-> sid, in |-> in,
                              loc |-> <<>>, res |-> NoResponse]]
    ELSE Answer(r, ep, sid, in, 500, [message |-> "Internal Server Error"])

\* The same for a request that is already under way.
UnhandledLater(r, outcome) ==
    IF outcome = 0
    THEN [reqs EXCEPT ![r].pc = "hung"]
    ELSE Respond(r, 500, [message |-> "Internal Server Error"])

\* A guard that lets every request through.
isAuthenticatedMutant(sid) == TRUE

\* req.session.loggedIn, read by the guard.
isAuthenticated(sid) == sid \in sessionStore

Unauthorized(r, ep, sid, in) ==
    Answer(r, ep, sid, in, 401, [authenticated |-> FALSE])

OrderVars == <<orders, immediates, mailbox>>
CatalogVars == <<products>>
BannerVars == <<banners, toggleTrace>>
MediaVars == <<cloudinary, uploadDir>>
EnvVars == <<now, faults>>

\* POST /login
PostLogin(r, sid, username, password) ==
    LET ep == "POST /login"
        in == [username |-> username, password |-> password]
    IN
    /\ Free(r)
    /\ IF username.t = "string" /\ username.s = ADMIN.username
       THEN LET c == bcryptCompare(password, ADMIN.password) IN
            IF c.threw
            THEN /\ \E outcome \in UnhandledOutcomes :
                        reqs' = Unhandled(r, ep, sid, in, outcome)
                 /\ UNCHANGED sessionStore
            ELSE IF c.match
            THEN /\ sessionStore' = sessionStore \cup {sid}
                 /\ reqs' = Answer(r, ep, sid, in, 200, [success |-> TRUE])
            ELSE /\ reqs' = Answer(r, ep, sid, in, 401,
                                   [success |-> FALSE, message |-> "Invalid credentials"])
                 /\ UNCHANGED sessionStore
       ELSE /\ reqs' = Answer(r, ep, sid, in, 401,
                              [success |-> FALSE, message |-> "Invalid credentials"])
            /\ UNCHANGED sessionStore
    /\ UNCHANGED <<OrderVars, CatalogVars, BannerVars, MediaVars, EnvVars, nextId>>

\* A logout that answers without removing the record.
destroyMutant(store, sid) == store

\* req.session.destroy: the store without the record of the session.
destroy(store, sid) == store \ {sid}

\* POST /logout
PostLogout(r, sid) ==
    LET ep == "POST /logout" IN
    /\ Free(r)
    /\ IF ~Up("db")
       THEN /\ reqs' = Answer(r, ep, sid, <<>>, 500, [success |-> FALSE])
            /\ UNCHANGED sessionStore
       ELSE /\ sessionStore' = destroy(sessionStore, sid)
            /\ reqs' = Answer(r, ep, sid, <<>>, 200, [success |-> TRUE])
    /\ UNCHANGED <<OrderVars, CatalogVars, BannerVars, MediaVars, EnvVars, nextId>>

\* GET /check-auth
GetCheckAuth(r, sid) ==
    LET ep == "GET /check-auth" IN
    /\ Free(r)
    /\ IF isAuthenticated(sid)
       THEN reqs' = Answer(r, ep, sid, <<>>, 200, [authenticated |-> TRUE])
       ELSE reqs' = Answer(r, ep, sid, <<>>, 401, [authenticated |-> FALSE])
    /\ UNCHANGED <<sessionStore, OrderVars, CatalogVars, BannerVars, MediaVars,
                   EnvVars, nextId>>

----------------------------------------------------------------------------
(* Orders (server.js 510-635, models/Orders.js).                           *)

requiredFields ==
    <<"orderId", "name", "contact", "city", "houseNo", "Block", "Area",
      "landmark", "paymentMethod", "cartItems", "totalAmount">>

StringPaths ==
    {"orderId", "name", "contact", "city", "houseNo", "Block", "Area",
     "landmark", "paymentMethod"}

\* One element of cartItems as sent: a JSON object, or null.
Item(nm, p, q, size, color) ==
    [t |-> "object", name |-> nm, price |-> p, quantity |-> q,
     selectedSize |-> size, selectedColor |-> color]
NullItem ==
    [t |-> "null", name |-> Undefined, price |-> Undefined, quantity |-> Undefined,
     selectedSize |-> Undefined, selectedColor |-> Undefined]

\* A loop that reports the last falsy field instead of the first.
LastMissing(body) ==
    LET missing == {i \in DOMAIN requiredFields : ~Truthy(body[requiredFields[i]])}
    IN IF missing = {} THEN 0
       ELSE CHOOSE i \in missing : \A j \in missing : i >= j

\* Index of the first required field whose value is falsy, 0 when none is.
FirstMissing(body) ==
    LET missing == {i \in DOMAIN requiredFields : ~Truthy(body[requiredFields[i]])}
    IN IF missing = {} THEN 0
       ELSE CHOOSE i \in missing : \A j \in missing : i <= j

\* A loop that lets every element through.
itemAccepted(item) == FALSE

\* The loop over cartItems stops at the first element that is null (reading
\* item.name throws) or lacks a truthy name, price or quantity.
ItemRejected(item) ==
    \/ item.t = "null"
    \/ ~Truthy(item.name) \/ ~Truthy(item.price) \/ ~Truthy(item.quantity)

FirstRejectedItem(items) ==
    LET bad == {i \in DOMAIN items : ItemRejected(items[i])}
    IN IF bad = {} THEN 0
       ELSE CHOOSE i \in bad : \A j \in bad : i <= j

\* Schema validation of one cartItems subdocument, and its stored form.
itemSchemaValid(item) ==
    /\ requiredString(castString(item.name))
    /\ requiredNumber(castNumber(item.price))
    /\ requiredNumber(castNumber(item.quantity))
    /\ optionalString(castString(item.selectedSize))
    /\ optionalString(castString(item.selectedColor))

storedOptional(v) ==
    IF castString(v).null THEN Null ELSE Str(castString(v).s)

castItem(item) ==
    [name |-> castString(item.name).s,
     price |-> castNumber(item.price).n,
     quantity |-> castNumber(item.quantity).n,
     selectedSize |-> storedOptional(item.selectedSize),
     selectedColor |-> storedOptional(item.selectedColor)]

\* An array stored in the reverse of the submitted order.
castCartItemsReversed(items) ==
    [i \in DOMAIN items |-> castItem(items[Len(items) + 1 - i])]

\* cartItems: [ { name, price, quantity, selectedColor, selectedSize, image } ]
castCartItems(items) ==
    [i \in DOMAIN items |-> castItem(items[i])]

\* Document validation run by save(): every path casts and every required
\* path is present.
orderSchemaValid(body) ==
    /\ \A f \in StringPaths : requiredString(castString(body[f]))
    /\ requiredNumber(castNumber(body.totalAmount))
    /\ body.cartItems.t = "array"
    /\ \A i \in DOMAIN body.cartItems.items :
          /\ body.cartItems.items[i].t = "object"
          /\ itemSchemaValid(body.cartItems.items[i])

\* new Order(orderData): the document as it will be stored.
newOrderDoc(body, id, t) ==
    [_id |-> id,
     orderId |-> castString(body.orderId).s,
     name |-> castString(body.name).s,
     contact |-> castString(body.contact).s,
     city |-> castString(body.city).s,
     houseNo |-> castString(body.houseNo).s,
     Block |-> castString(body.Block).s,
     Area |-> castString(body.Area).s,
     landmark |-> castString(body.landmark).s,
     paymentMethod |-> castString(body.paymentMethod).s,
     cartItems |-> castCartItems(body.cartItems.items),
     totalAmount |-> castNumber(body.totalAmount).n,
     createdAt |-> t]

\* A collection without the unique index.
orderIdUniqueMutant(doc) == TRUE

\* orderId: { unique: true }: the index refuses a second document with the
\* same orderId.
orderIdUnique(doc) == \A o \in orders : o.orderId # doc.orderId

OrderFailed(msg) == [success |-> FALSE, message |-> "Order failed", error |-> msg]

\* POST /orders, from the request to the answer of Order.findOne and the
\* construction of the new document (server.js 511-572).
PostOrders(r, sid, body) ==
    LET ep == "POST /orders"
        missing == FirstMissing(body)
        items == body.cartItems.items
        rejected == FirstRejectedItem(items)
    IN
    /\ Free(r)
    /\ IF missing # 0
       THEN /\ reqs' = Answer(r, ep, sid, body, 400,
                  [success |-> FALSE, message |-> "Missing required field",
                   field |-> requiredFields[missing]])
            /\ UNCHANGED nextId
       ELSE IF body.cartItems.t # "array" \/ Len(items) = 0
       THEN /\ reqs' = Answer(r, ep, sid, body, 400,
                  [success |-> FALSE,
                   message |-> "Cart items must be a non-empty array"])
            /\ UNCHANGED nextId
       ELSE IF rejected # 0 /\ items[rejected].t = "null"
       THEN /\ reqs' = Answer(r, ep, sid, body, 500, OrderFailed("TypeError"))
            /\ UNCHANGED nextId
       ELSE IF rejected # 0
       THEN /\ reqs' = Answer(r, ep, sid, body, 400,
                  [success |-> FALSE,
                   message |-> "Each cart item must have name, price, and quantity"])
            /\ UNCHANGED nextId
       ELSE IF ~castString(body.orderId).ok
       THEN /\ reqs' = Answer(r, ep, sid, body, 500, OrderFailed("CastError"))
            /\ UNCHANGED nextId
       ELSE IF ~Up("db")
       THEN /\ reqs' = Answer(r, ep, sid, body, 500, OrderFailed("db unavailable"))
            /\ UNCHANGED nextId
       ELSE IF \E o \in orders : o.orderId = castString(body.orderId).s
       THEN /\ reqs' = Answer(r, ep, sid, body, 400,
                  [success |-> FALSE, message |-> "Order ID already exists"])
            /\ UNCHANGED nextId
       ELSE IF ~orderSchemaValid(body)
       THEN /\ reqs' = Answer(r, ep, sid, body, 500, OrderFailed("ValidationError"))
            /\ UNCHANGED nextId
       ELSE /\ CanAllocate
            /\ reqs' = Receive(r, ep, sid, body, "save",
                               [newOrder |-> newOrderDoc(body, nextId, now)])
            /\ nextId' = nextId + 1
    /\ UNCHANGED <<sessionStore, OrderVars, CatalogVars, BannerVars, MediaVars, EnvVars>>

\* A callback queued twice.
setImmediateTwice(queue, id) == Append(Append(queue, id), id)

\* setImmediate(async () => { ... sendOrderEmail(newOrder) ... })
setImmediate(queue, id) == Append(queue, id)

\* await newOrder.save(), the 201 answer and the setImmediate call
\* (server.js 572-588).
PostOrdersSave(r) ==
    LET newOrder == reqs[r].loc.newOrder IN
    /\ reqs[r].pc = "save"
    /\ reqs[r].ep = "POST /orders"
    /\ IF ~Up("db")
       THEN /\ reqs' = Respond(r, 500, OrderFailed("db unavailable"))
            /\ UNCHANGED <<orders, immediates>>
       ELSE IF ~orderIdUnique(newOrder)
       THEN /\ reqs' = Respond(r, 500, OrderFailed("E11000 duplicate key"))
            /\ UNCHANGED <<orders, immediates>>
       ELSE /\ orders' = orders \cup {newOrder}
            /\ reqs' = Respond(r, 201,
                  [success |-> TRUE, message |-> "Order placed",
                   orderId |-> newOrder._id])
            /\ immediates' = setImmediate(immediates, newOrder._id)
    /\ UNCHANGED <<sessionStore, mailbox, CatalogVars, BannerVars, MediaVars, EnvVars,
                   nextId>>

\* A callback that stays queued when its attempt failed.
requeueFailed(queue, outcome) ==
    IF outcome = "failed" THEN queue ELSE Tail(queue)

\* setImmediate runs its callback once: whatever sendOrderEmail did, the
\* catch only logs and the callback is gone.
runOnce(queue, outcome) == Tail(queue)

\* The callback queued by setImmediate: sendOrderEmail in a try/catch that
\* logs a failure (server.js 581-588, 1138-1155).
RunImmediate ==
    LET outcome == IF Up("smtp") THEN "sent" ELSE "failed" IN
    /\ immediates # <<>>
    /\ mailbox' = mailbox \cup {[order |-> Head(immediates), outcome |-> outcome]}
    /\ immediates' = runOnce(immediates, outcome)
    /\ UNCHANGED <<sessionStore, orders, reqs, CatalogVars, BannerVars, MediaVars,
                   EnvVars, nextId>>

\* ObjectIds as they arrive in a route parameter: 0 stands for a string that
\* is no well-formed ObjectId, any other number for a well-formed one.
MalformedId == 0
ObjectIdParams == 0 .. MaxIds

\* A check that lets every id through.
anyObjectId(id) == TRUE

\* mongoose.isValidObjectId
isValidObjectId(id) == id # MalformedId

\* GET /orders
GetOrders(r, sid) ==
    LET ep == "GET /orders" IN
    /\ Free(r)
    /\ IF ~Up("db")
       THEN reqs' = Answer(r, ep, sid, <<>>, 500, [message |-> "Fetch failed"])
       ELSE reqs' = Answer(r, ep, sid, <<>>, 200, [docs |-> orders])
    /\ UNCHANGED <<sessionStore, OrderVars, CatalogVars, BannerVars, MediaVars,
                   EnvVars, nextId>>

\* GET /orders/:id
GetOrder(r, sid, id) ==
    LET ep == "GET /orders/:id" IN
    /\ Free(r)
    /\ IF ~isValidObjectId(id) \/ ~Up("db")
       THEN reqs' = Answer(r, ep, sid, id, 500, [message |-> "Failed to fetch order"])
       ELSE IF ~\E o \in orders : o._id = id
       THEN reqs' = Answer(r, ep, sid, id, 404, [message |-> "Order not found"])
       ELSE reqs' = Answer(r, ep, sid, id, 200,
                           [doc |-> CHOOSE o \in orders : o._id = id])
    /\ UNCHANGED <<sessionStore, OrderVars, CatalogVars, BannerVars, MediaVars,
                   EnvVars, nextId>>

\* DELETE /orders/:id
DeleteOrder(r, sid, id) ==
    LET ep == "DELETE /orders/:id" IN
    /\ Free(r)
    /\ IF ~isAuthenticated(sid)
       THEN /\ reqs' = Unauthorized(r, ep, sid, id)
            /\ UNCHANGED orders
       ELSE IF ~isValidObjectId(id) \/ ~Up("db")
       THEN /\ reqs' = Answer(r, ep, sid, id, 500,
                              [message |-> "Failed to delete order"])
            /\ UNCHANGED orders
       ELSE IF ~\E o \in orders : o._id = id
       THEN /\ reqs' = Answer(r, ep, sid, id, 404, [message |-> "Order not found"])
            /\ UNCHANGED orders
       ELSE /\ orders' = {o \in orders : o._id # id}
            /\ reqs' = Answer(r, ep, sid, id, 200, [message |-> "Order deleted"])
    /\ UNCHANGED <<sessionStore, immediates, mailbox, CatalogVars, BannerVars,
                   MediaVars, EnvVars, nextId>>

----------------------------------------------------------------------------
(* Receipts (server.js 772-1104).  A PDF is the sequence of its text and   *)
(* line operations; fonts, sizes and colours are left out.                 *)

Draw(kind, text, a, b, c, value, x, y) ==
    [kind |-> kind, text |-> text, a |-> a, b |-> b, c |-> c, value |-> value,
     x |-> x, y |-> y]

Label(text, x, y) == Draw("label", text, "", "", "", 0, x, y)
\* `${label} ${value || fallback}`
Field(text, v, fallback, x, y) ==
    Draw("field", text, IF v # "" THEN v ELSE fallback, "", "", 0, x, y)
\* `Rs. ${value.toFixed(2)}`
Amount(value, x, y) == Draw("amount", "Rs.", "", "", "", value, x, y)
Number(value, x, y) == Draw("number", "", "", "", "", value, x, y)
Line(y) == Draw("line", "", "", "", "", 330, 30, y)

\* `${v ? ` (${v})` : ""}` for a stored optional string.
Suffix(v) == IF Truthy(v) THEN v.s ELSE ""

\* One row of the items table, drawn at height y for the item at `index`
\* (0-based, as forEach passes it).
itemRow(item, index, y) ==
    <<Number(index + 1, 30, y),
      Draw("item", item.name, Suffix(item.selectedSize), Suffix(item.selectedColor),
           "", 0, 60, y),
      Number(item.quantity, 230, y),
      Amount(item.price * item.quantity, 280, y)>>

\* order.cartItems.forEach(...) with y starting at 125 and advancing by 15.
RECURSIVE itemRows(_, _)
itemRows(items, k) ==
    IF k > Len(items) THEN <<>>
    ELSE itemRow(items[k], k - 1, 125 + 15 * (k - 1)) \o itemRows(items, k + 1)

\* cartItems.reduce((sum, item) => sum + item.price * item.quantity, 0)
RECURSIVE reduceSubtotal(_, _, _)
reduceSubtotal(items, k, sum) ==
    IF k > Len(items) THEN sum
    ELSE reduceSubtotal(items, k + 1, sum + items[k].price * items[k].quantity)

\* A delivery charge that does not depend on the subtotal.
deliveryChargesMutant(subtotal) == 150

\* const deliveryCharges = subtotal > 0 ? 150 : 0
deliveryCharges(subtotal) == IF subtotal > 0 THEN 150 ELSE 0

\* The page, with the x positions of the two labels in which the endpoints
\* differ.
drawPage(order, orderId, xDelivery, xTotal) ==
    LET y0 == 125 + 15 * Len(order.cartItems)
        subtotal == reduceSubtotal(order.cartItems, 1, 0)
        total == order.totalAmount
    IN
    <<Label("MYR SURGICAL", 30, 30),
      Label("Order Details:", 30, 60),
      Draw("label", "Order ID:", "", "", "", orderId, 30, 80),
      Label("S.No", 30, 100), Label("Item Name", 60, 100),
      Label("Quantity", 230, 100), Label("Amount", 280, 100),
      Line(115)>>
    \o itemRows(order.cartItems, 1)
    \o <<Line(y0),
         Label("Sub Total:", 230, y0 + 10), Amount(subtotal, 280, y0 + 10),
         Label("Delivery Charges:", xDelivery, y0 + 25),
         Amount(deliveryCharges(subtotal), 280, y0 + 25),
         Label("Total Amount:", xTotal, y0 + 40), Amount(total, 280, y0 + 40),
         Label("Customer Details:", 350, 60),
         Field("Name:", order.name, "N/A", 350, 80),
         Field("Contact:", order.contact, "N/A", 350, 95),
         Draw("field", "Shipping Address:", order.houseNo, order.Block, order.Area,
              0, 350, 110),
         Field("City:", order.city, "N/A", 350, 140),
         Draw("date", "Date of Order:", "", "", "", order.createdAt, 350, 155),
         Draw("label", "Order ID:", "", "", "", orderId, 350, 170),
         Field("Payment Method:", order.paymentMethod, "N/A", 350, 185),
         Label("Thank you for shopping with MYR Surgical!", 30, 280),
         Label("(c) 2025 MYR Surgical. All rights reserved.", 30, 290)>>

\* GET /orders/:id/receipt
receiptPdf(order, orderId) == drawPage(order, orderId, 192, 205)

\* GET /orders/:id/receipt/preview
previewPdf(order, orderId) == drawPage(order, orderId, 230, 230)

ReceiptHandler(r, sid, id, ep, disposition, failure) ==
    /\ Free(r)
    /\ IF ~isValidObjectId(id)
       THEN reqs' = Answer(r, ep, sid, id, 400,
                           [success |-> FALSE, message |-> "Invalid order ID"])
       ELSE IF ~Up("db")
       THEN reqs' = Answer(r, ep, sid, id, 500,
                           [success |-> FALSE, message |-> failure])
       ELSE IF ~\E o \in orders : o._id = id
       THEN reqs' = Answer(r, ep, sid, id, 404,
                           [success |-> FALSE, message |-> "Order not found"])
       ELSE LET order == CHOOSE o \in orders : o._id = id IN
            reqs' = Answer(r, ep, sid, id, 200,
                      [disposition |-> disposition,
                       pdf |-> IF disposition = "attachment"
                               THEN receiptPdf(order, id)
                               ELSE previewPdf(order, id)])
    /\ UNCHANGED <<sessionStore, OrderVars, CatalogVars, BannerVars, MediaVars,
                   EnvVars, nextId>>

GetReceipt(r, sid, id) ==
    ReceiptHandler(r, sid, id, "GET /orders/:id/receipt", "attachment",
                   "Failed to generate receipt")

GetReceiptPreview(r, sid, id) ==
    ReceiptHandler(r, sid, id, "GET /orders/:id/receipt/preview", "inline",
                   "Failed to preview receipt")

----------------------------------------------------------------------------
(* Initial state and the requests the model sends.                         *)

Init ==
    /\ sessionStore = {}
    /\ products = {}
    /\ orders = {}
    /\ banners = {}
    /\ cloudinary = {}
    /\ uploadDir = {}
    /\ reqs = [r \in Requests |-> IdleReq]
    /\ immediates = <<>>
    /\ mailbox = {}
    /\ now = 0
    /\ nextId = 1
    /\ faults = {}
    /\ toggleTrace = <<>>

Gloves == Item(Str("gloves"), Num(1000), Num(2), Undefined, Undefined)
Mask == Item(Str("mask"), Num(500), Num(1), Str("L"), Undefined)
Refund == Item(Str("refund"), Num(0 - 500), Num(1), Undefined, Str("red"))
Quoted == Item(Str("tape"), Str("2"), Num(1), Undefined, Undefined)
Unpriced == Item(Str("mask"), Str("abc"), Num(1), Undefined, Undefined)

OrderBody(orderId, cartItems, totalAmount) ==
    [f \in Range(requiredFields) |->
        CASE f = "orderId" -> orderId
          [] f = "cartItems" -> cartItems
          [] f = "totalAmount" -> totalAmount
          [] OTHER -> Str(f)]

\* Bodies sent while two requests are in flight together.
ConcurrentOrderBodies ==
    {OrderBody(Str(id), Arr(<<Gloves, Mask>>), Num(2650)) : id \in {"A", "B"}}
    \cup {OrderBody(Str("A"), Arr(<<Unpriced>>), Num(650))}

AdminLogin(r) ==
    \E sid \in SessionIds : PostLogin(r, sid, Str(ADMIN.username), Str("secret"))

\* Order intake and deletion with two requests in flight, every collaborator up.
NextOrders ==
    \/ \E r \in Requests :
        \/ AdminLogin(r)
        \/ \E sid \in SessionIds, body \in ConcurrentOrderBodies :
              PostOrders(r, sid, body)
        \/ PostOrdersSave(r)
        \/ \E sid \in SessionIds, id \in ObjectIdParams : DeleteOrder(r, sid, id)
    \/ RunImmediate

SpecOrders == Init /\ [][NextOrders]_vars

----------------------------------------------------------------------------
(* Uploads: multer, the error-handling middleware and the image host       *)
(* (server.js 186-215).                                                    *)

\* limits: { fileSize: 10 * 1024 * 1024 }
fileSizeLimit == 10 * 1024 * 1024

\* The layers of the Express application in the order server.js registers
\* them (middleware that neither answers nor fails is left out).
appStack ==
    <<"POST /login", "POST /logout", "GET /check-auth", "Multer Error Handler",
      "POST /upload", "GET /products", "PUT /products/:id", "DELETE /products/:id",
      "POST /orders", "GET /orders", "GET /orders/:id", "DELETE /orders/:id",
      "POST /admin/banners", "GET /banners", "GET /admin/banners",
      "DELETE /admin/banners/:id", "PATCH /admin/banners/:id/toggle",
      "GET /orders/:id/receipt", "GET /orders/:id/receipt/preview">>

LayerOf(stack, name) == CHOOSE i \in DOMAIN stack : stack[i] = name

\* next(err) hands the error to the error-handling layers registered after
\* the layer that failed, and to Express's default handler when there is none.
errorHandlerReached(ep) ==
    LayerOf(appStack, "Multer Error Handler") > LayerOf(appStack, ep)

\* An uploaded file as the client sends it.
File(size, mimetype) == [size |-> size, mimetype |-> mimetype]
isImage(file) == file.mimetype = "image"

\* What multer does with the files of a request, in the order they arrive:
\* the first file the filter refuses or that exceeds the size limit fails the
\* request, and multer removes what it had written for it.
multerError(files) ==
    LET bad == {i \in DOMAIN files :
                    ~isImage(files[i]) \/ files[i].size > fileSizeLimit}
    IN IF bad = {} THEN "none"
       ELSE LET i == CHOOSE i \in bad : \A j \in bad : i <= j IN
            IF ~isImage(files[i]) THEN "Only image files are allowed"
            ELSE "LIMIT_FILE_SIZE"

\* The answer to a request whose upload middleware failed.
uploadErrorAnswer(ep, err) ==
    IF errorHandlerReached(ep) /\ err = "LIMIT_FILE_SIZE"
    THEN [status |-> 400, body |-> [message |-> "Image exceeds 10MB limit"]]
    ELSE [status |-> 500, body |-> [message |-> "Internal Server Error"]]

\* The temporary files multer writes for request number id.
tempFiles(id, files) == {[req |-> id, idx |-> i] : i \in DOMAIN files}

\* fs.unlink of each of the given files.
unlinkAll(dir, paths) == dir \ paths

\* cloudinary.uploader.upload: the asset's public id and its secure_url.
uploadedAsset(folder, id, i) == [folder |-> folder, name |-> <<id, i>>]
secureUrl(asset) == [folder |-> asset.folder, name |-> asset.name, format |-> "jpg"]

\* imageUrl.split("/").pop().split(".")[0], prefixed with the products' folder.
publicIdOfUrl(url) == [folder |-> "myr-surgical", name |-> url.name]

----------------------------------------------------------------------------
(* Catalog (server.js 217-508, models/Product.js).                         *)

\* parseFloat(s) for the strings of the model; NaN for every other string.
ParsedFloats == [s \in {"10", "25"} |-> IF s = "10" THEN 10 ELSE 25]
NaN == [nan |-> TRUE, n |-> 0]
parseFloat(v) ==
    IF v.t = "string" /\ v.s \in DOMAIN ParsedFloats
    THEN [nan |-> FALSE, n |-> ParsedFloats[v.s]]
    ELSE NaN

\* A comma-separated form field: the string with the pieces split(",") cuts
\* it into.
Csv(s, pieces) == [t |-> "string", n |-> 0, s |-> s, items |-> pieces]

Trimmed == [s \in {" blue"} |-> "blue"]
trim(s) == IF s \in DOMAIN Trimmed THEN Trimmed[s] ELSE s

\* v ? v.split(",").map((c) => c.trim()).filter(Boolean) : []
splitList(v) ==
    IF ~Truthy(v) THEN <<>>
    ELSE SelectSeq([i \in DOMAIN v.items |-> trim(v.items[i])], LAMBDA s : s # "")

ProductBody(id, name, price, category) ==
    [id |-> id, name |-> name, price |-> price, category |-> category,
     discount |-> Undefined, mostSell |-> Str("true"), available |-> Str("true"),
     colors |-> Csv("red, blue,", <<"red", " blue", "">>), sizes |-> Undefined,
     description |-> Undefined]

\* A check that asks for the id only.
idMissing(body) == ~Truthy(body.id)

\* if (!id || !name || !price || !category)
productFieldsMissing(body) ==
    ~Truthy(body.id) \/ ~Truthy(body.name) \/ ~Truthy(body.price)
        \/ ~Truthy(body.category)

\* The fields both POST /upload and PUT /products/:id compute from the form.
productFields(body, imageUrls) ==
    [id |-> body.id.s,
     name |-> body.name.s,
     price |-> parseFloat(body.price),
     discount |-> IF Truthy(body.discount) THEN parseFloat(body.discount)
                  ELSE [nan |-> FALSE, n |-> 0],
     category |-> body.category.s,
     mostSell |-> (body.mostSell.t = "string" /\ body.mostSell.s = "true"),
     available |-> (body.available.t = "string" /\ body.available.s = "true"),
     images |-> imageUrls,
     colors |-> splitList(body.colors),
     sizes |-> splitList(body.sizes),
     description |-> IF Truthy(body.description) THEN body.description.s ELSE ""]

\* Number paths refuse NaN.
productSchemaValid(fields) == ~fields.price.nan /\ ~fields.discount.nan

\* id: { unique: true }, for an insert and for an update of document `self`.
productIdUnique(id, self) ==
    \A p \in products : p._id # self => p.id # id

MissingFields == [message |-> "Missing required fields: id, name, price, category"]

\* A handler that goes on to save the product without the image that failed.
UploadSkipped(r, message, err) ==
    /\ uploadDir' = unlinkAll(uploadDir, tempFiles(reqs[r].loc.id, reqs[r].in.files))
    /\ reqs' = [reqs EXCEPT ![r].pc = "save"]

\* The catch block of POST /upload and PUT /products/:id: unlink every file
\* of the request and answer 500.
UploadFailed(r, message, err) ==
    /\ uploadDir' = unlinkAll(uploadDir, tempFiles(reqs[r].loc.id, reqs[r].in.files))
    /\ reqs' = Respond(r, 500, [message |-> message, error |-> err])

\* POST /upload up to the first await (server.js 218-270, 291-316).
PostUpload(r, sid, body, files) ==
    LET ep == "POST /upload"
        in == [body |-> body, files |-> files]
        err == multerError(files)
        loc == [id |-> nextId, i |-> 1, imageUrls |-> <<>>]
    IN
    /\ Free(r)
    /\ IF ~isAuthenticated(sid)
       THEN /\ reqs' = Unauthorized(r, ep, sid, in)
            /\ UNCHANGED <<uploadDir, nextId>>
       ELSE IF err # "none"
       THEN /\ reqs' = Answer(r, ep, sid, in, uploadErrorAnswer(ep, err).status,
                              uploadErrorAnswer(ep, err).body)
            /\ UNCHANGED <<uploadDir, nextId>>
       ELSE /\ CanAllocate
            /\ nextId' = nextId + 1
            /\ uploadDir' = uploadDir \cup tempFiles(nextId, files)
            /\ IF productFieldsMissing(body)
               THEN reqs' = Answer(r, ep, sid, in, 400, MissingFields)
               ELSE reqs' = Receive(r, ep, sid, in,
                                    IF Len(files) > 0 THEN "upload" ELSE "save", loc)
    /\ UNCHANGED <<sessionStore, OrderVars, CatalogVars, BannerVars, cloudinary, EnvVars>>

\* One turn of the loop over req.files: the upload of file i, then the
\* unlink of its temporary copy (server.js 253-286, 408-441).
UploadNextImage(r, ep, next, message) ==
    LET loc == reqs[r].loc
        asset == uploadedAsset("myr-surgical", loc.id, loc.i)
    IN
    /\ reqs[r].pc = "upload"
    /\ reqs[r].ep = ep
    /\ IF ~Up("cloudinary")
       THEN /\ UploadFailed(r, message, "upload failed")
            /\ UNCHANGED cloudinary
       ELSE /\ cloudinary' = cloudinary \cup {asset}
            /\ uploadDir' = unlinkAll(uploadDir, {[req |-> loc.id, idx |-> loc.i]})
            /\ reqs' = [reqs EXCEPT
                  ![r].loc.imageUrls = Append(@, secureUrl(asset)),
                  ![r].loc.i = @ + 1,
                  ![r].pc = IF loc.i = Len(reqs[r].in.files) THEN next ELSE "upload"]
    /\ UNCHANGED <<sessionStore, OrderVars, CatalogVars, BannerVars, EnvVars, nextId>>

PostUploadImage(r) ==
    UploadNextImage(r, "POST /upload", "save", "Failed to upload product")

\* await product.save() and the answer (server.js 291-318).
PostUploadSave(r) ==
    LET loc == reqs[r].loc
        fields == productFields(reqs[r].in.body, loc.imageUrls)
        product == [_id |-> loc.id] @@ fields
    IN
    /\ reqs[r].pc = "save"
    /\ reqs[r].ep = "POST /upload"
    /\ IF ~productSchemaValid(fields)
       THEN /\ UploadFailed(r, "Failed to upload product", "ValidationError")
            /\ UNCHANGED products
       ELSE IF ~Up("db")
       THEN /\ UploadFailed(r, "Failed to upload product", "db unavailable")
            /\ UNCHANGED products
       ELSE IF ~productIdUnique(fields.id, loc.id)
       THEN /\ UploadFailed(r, "Failed to upload product", "E11000 duplicate key")
            /\ UNCHANGED products
       ELSE /\ products' = products \cup {product}
            /\ reqs' = Respond(r, 200,
                               [message |-> "Product saved", product |-> product])
            /\ UNCHANGED uploadDir
    /\ UNCHANGED <<sessionStore, OrderVars, BannerVars, cloudinary, EnvVars, nextId>>

\* GET /products
GetProducts(r, sid) ==
    LET ep == "GET /products" IN
    /\ Free(r)
    /\ IF ~Up("db")
       THEN reqs' = Answer(r, ep, sid, <<>>, 500, [message |-> "Error loading products"])
       ELSE reqs' = Answer(r, ep, sid, <<>>, 200, [docs |-> products])
    /\ UNCHANGED <<sessionStore, OrderVars, CatalogVars, BannerVars, MediaVars,
                   EnvVars, nextId>>

\* A deletion that keeps the document and drops the others.
findOneAndDeleteMutant(coll, id) == {p \in coll : p.id = id}

\* Product.findOneAndDelete({ id }): the collection without the document.
findOneAndDelete(coll, id) == {p \in coll : p.id # id}

\* DELETE /products/:id
DeleteProduct(r, sid, id) ==
    LET ep == "DELETE /products/:id" IN
    /\ Free(r)
    /\ IF ~isAuthenticated(sid)
       THEN /\ reqs' = Unauthorized(r, ep, sid, id)
            /\ UNCHANGED products
       ELSE IF ~Up("db")
       THEN /\ reqs' = Answer(r, ep, sid, id, 500, [message |-> "Delete failed"])
            /\ UNCHANGED products
       ELSE IF ~\E p \in products : p.id = id
       THEN /\ reqs' = Answer(r, ep, sid, id, 404, [message |-> "Not found"])
            /\ UNCHANGED products
       ELSE /\ products' = findOneAndDelete(products, id)
            /\ reqs' = Answer(r, ep, sid, id, 200, [message |-> "Product deleted"])
    /\ UNCHANGED <<sessionStore, OrderVars, BannerVars, MediaVars, EnvVars, nextId>>

\* PUT /products/:id up to the answer of Product.findOne
\* (server.js 355-397, 442-444).
PutProduct(r, sid, id, body, files) ==
    LET ep == "PUT /products/:id"
        in == [id |-> id, body |-> body, files |-> files]
        err == multerError(files)
        found == {p \in products : p.id = id}
    IN
    /\ Free(r)
    /\ IF ~isAuthenticated(sid)
       THEN /\ reqs' = Unauthorized(r, ep, sid, in)
            /\ UNCHANGED <<uploadDir, nextId>>
       ELSE IF err # "none"
       THEN /\ reqs' = Answer(r, ep, sid, in, uploadErrorAnswer(ep, err).status,
                              uploadErrorAnswer(ep, err).body)
            /\ UNCHANGED <<uploadDir, nextId>>
       ELSE /\ Len(files) > 0 => CanAllocate
            /\ nextId' = IF Len(files) > 0 THEN nextId + 1 ELSE nextId
            /\ IF productFieldsMissing(body)
               THEN /\ reqs' = Answer(r, ep, sid, in, 400, MissingFields)
                    /\ uploadDir' = uploadDir \cup tempFiles(nextId, files)
               ELSE IF ~Up("db")
               THEN /\ reqs' = Answer(r, ep, sid, in, 500,
                          [message |-> "Update failed", error |-> "db unavailable"])
                    /\ UNCHANGED uploadDir
               ELSE IF found = {}
               THEN /\ reqs' = Answer(r, ep, sid, in, 404,
                                      [message |-> "Product not found"])
                    /\ uploadDir' = uploadDir \cup tempFiles(nextId, files)
               ELSE LET existingProduct == CHOOSE p \in found : TRUE IN
                    /\ uploadDir' = uploadDir \cup tempFiles(nextId, files)
                    /\ reqs' = Receive(r, ep, sid, in,
                          IF Len(files) = 0 THEN "update"
                          ELSE IF Len(existingProduct.images) > 0 THEN "destroy"
                          ELSE "upload",
                          [id |-> nextId, i |-> 1, d |-> 1,
                           oldImages |-> existingProduct.images,
                           imageUrls |-> IF Len(files) = 0
                                         THEN existingProduct.images ELSE <<>>])
    /\ UNCHANGED <<sessionStore, OrderVars, CatalogVars, BannerVars, cloudinary, EnvVars>>

\* One turn of the loop that deletes the old images from the image host
\* (server.js 398-404).
PutProductDestroy(r) ==
    LET loc == reqs[r].loc IN
    /\ reqs[r].pc = "destroy"
    /\ reqs[r].ep = "PUT /products/:id"
    /\ IF ~Up("cloudinary")
       THEN /\ UploadFailed(r, "Update failed", "destroy failed")
            /\ UNCHANGED cloudinary
       ELSE /\ cloudinary' = cloudinary \ {publicIdOfUrl(loc.oldImages[loc.d])}
            /\ reqs' = [reqs EXCEPT
                  ![r].loc.d = @ + 1,
                  ![r].pc = IF loc.d = Len(loc.oldImages) THEN "upload" ELSE "destroy"]
            /\ UNCHANGED uploadDir
    /\ UNCHANGED <<sessionStore, OrderVars, CatalogVars, BannerVars, EnvVars, nextId>>

PutProductImage(r) ==
    UploadNextImage(r, "PUT /products/:id", "update", "Update failed")

\* await Product.updateOne({ id: req.params.id }, { $set: updateFields }) and
\* the answer (server.js 446-474).
PutProductUpdate(r) ==
    LET loc == reqs[r].loc
        updateFields == productFields(reqs[r].in.body, loc.imageUrls)
        matched == {p \in products : p.id = reqs[r].in.id}
    IN
    /\ reqs[r].pc = "update"
    /\ reqs[r].ep = "PUT /products/:id"
    /\ IF ~productSchemaValid(updateFields)
       THEN /\ UploadFailed(r, "Update failed", "CastError")
            /\ UNCHANGED products
       ELSE IF ~Up("db")
       THEN /\ UploadFailed(r, "Update failed", "db unavailable")
            /\ UNCHANGED products
       ELSE IF matched # {}
               /\ ~productIdUnique(updateFields.id, (CHOOSE p \in matched : TRUE)._id)
       THEN /\ UploadFailed(r, "Update failed", "E11000 duplicate key")
            /\ UNCHANGED products
       ELSE /\ products' = {IF p \in matched THEN [_id |-> p._id] @@ updateFields ELSE p :
                               p \in products}
            /\ reqs' = Respond(r, 200,
                  [message |-> "Product updated", product |-> updateFields])
            /\ UNCHANGED uploadDir
    /\ UNCHANGED <<sessionStore, OrderVars, BannerVars, cloudinary, EnvVars, nextId>>

----------------------------------------------------------------------------
(* Banners (server.js 636-753, unnamed/part_002).                          *)

\* A path declared Date: null stays null, a string that parses becomes the
\* instant it names.
castDate(v) ==
    CASE v.t = "null" -> CastNull
      [] v.t = "string" /\ (\E i \in 0 .. MaxTime : ToString(i) = v.s) ->
            CastOk(CHOOSE i \in 0 .. MaxTime : ToString(i) = v.s)
      [] OTHER -> CastError

\* x || null
orNull(v) == IF Truthy(v) THEN v ELSE Null

storedDate(c) == IF c.null THEN Null ELSE Num(c.n)

DateInputs == {Undefined, Str("soon")} \cup {Str(ToString(i)) : i \in 0 .. MaxTime}

\* A MongoDB filter is a tree: and/or over conditions on one field.
And(args) == [op |-> "$and", args |-> args]
Or(args) == [op |-> "$or", args |-> args]
Cond(op, field, value) == [op |-> op, field |-> field, value |-> value]

\* A condition on one field of a document.  $lte and $gte compare values of
\* the same type only; { field: null } matches null and a missing field.
matchesCond(doc, c) ==
    LET v == doc[c.field] IN
    CASE c.op = "$eq" /\ c.value.t = "null" -> v.t \in {"null", "undefined"}
      [] c.op = "$eq" -> v = c.value
      [] c.op = "$exists" -> (v.t # "undefined") = c.value
      [] c.op = "$lte" -> v.t = c.value.t /\ v.n <= c.value.n
      [] c.op = "$gte" -> v.t = c.value.t /\ v.n >= c.value.n
      [] OTHER -> FALSE

RECURSIVE matches(_, _)
matches(doc, q) ==
    CASE q.op = "$and" -> \A i \in DOMAIN q.args : matches(doc, q.args[i])
      [] q.op = "$or" -> \E i \in DOMAIN q.args : matches(doc, q.args[i])
      [] OTHER -> matchesCond(doc, q)

\* A filter whose endDate bound is turned around.
publicBannersFilterMutant(t) ==
    And(<<Cond("$eq", "active", Bool(TRUE)),
          Or(<<Cond("$exists", "startDate", FALSE), Cond("$eq", "startDate", Null),
               Cond("$lte", "startDate", Num(t))>>),
          Or(<<Cond("$exists", "endDate", FALSE), Cond("$eq", "endDate", Null),
               Cond("$lte", "endDate", Num(t))>>)>>)

\* The filter of GET /banners (server.js 695-713).
publicBannersFilter(t) ==
    And(<<Cond("$eq", "active", Bool(TRUE)),
          Or(<<Cond("$exists", "startDate", FALSE), Cond("$eq", "startDate", Null),
               Cond("$lte", "startDate", Num(t))>>),
          Or(<<Cond("$exists", "endDate", FALSE), Cond("$eq", "endDate", Null),
               Cond("$gte", "endDate", Num(t))>>)>>)

\* The fields of a banner the filter reads, as values.
asFiltered(b) ==
    [active |-> Bool(b.active), startDate |-> b.startDate, endDate |-> b.endDate]

find(coll, q) == {b \in coll : matches(asFiltered(b), q)}

BannerBody(url, startDate, endDate) ==
    [url |-> url, startDate |-> startDate, endDate |-> endDate]

\* POST /admin/banners up to the first await (server.js 638-653).
PostBanner(r, sid, body, files) ==
    LET ep == "POST /admin/banners"
        in == [body |-> body, files |-> files]
        err == multerError(files)
    IN
    /\ Free(r)
    /\ IF ~isAuthenticated(sid)
       THEN /\ reqs' = Unauthorized(r, ep, sid, in)
            /\ UNCHANGED <<uploadDir, nextId>>
       ELSE IF err # "none"
       THEN /\ reqs' = Answer(r, ep, sid, in, uploadErrorAnswer(ep, err).status,
                              uploadErrorAnswer(ep, err).body)
            /\ UNCHANGED <<uploadDir, nextId>>
       ELSE IF Len(files) = 0
       THEN /\ reqs' = Answer(r, ep, sid, in, 400,
                  [success |-> FALSE, message |-> "No image uploaded"])
            /\ UNCHANGED <<uploadDir, nextId>>
       ELSE /\ CanAllocate
            /\ nextId' = nextId + 1
            /\ uploadDir' = uploadDir \cup tempFiles(nextId, files)
            /\ reqs' = Receive(r, ep, sid, in, "upload", [id |-> nextId])
    /\ UNCHANGED <<sessionStore, OrderVars, CatalogVars, BannerVars, cloudinary, EnvVars>>

BannerUploadFailed == [success |-> FALSE, message |-> "Banner upload failed"]

\* The upload to the image host, the unlink of the temporary file and the
\* construction of the document (server.js 653-671).
PostBannerUpload(r) ==
    LET loc == reqs[r].loc
        body == reqs[r].in.body
        asset == uploadedAsset("myr-banners", loc.id, 1)
    IN
    /\ reqs[r].pc = "upload"
    /\ reqs[r].ep = "POST /admin/banners"
    /\ IF ~Up("cloudinary")
       THEN /\ reqs' = Respond(r, 500, BannerUploadFailed)
            /\ UNCHANGED <<cloudinary, uploadDir>>
       ELSE /\ cloudinary' = cloudinary \cup {asset}
            /\ uploadDir' = unlinkAll(uploadDir, {[req |-> loc.id, idx |-> 1]})
            /\ reqs' = [reqs EXCEPT
                  ![r].pc = "save",
                  ![r].loc = [id |-> loc.id,
                              startDate |-> castDate(orNull(body.startDate)),
                              endDate |-> castDate(orNull(body.endDate)),
                              banner |->
                                [_id |-> loc.id,
                                 imageUrl |-> secureUrl(asset),
                                 publicId |-> asset,
                                 link |-> IF Truthy(body.url) THEN body.url.s ELSE "",
                                 startDate |-> storedDate(castDate(orNull(body.startDate))),
                                 endDate |-> storedDate(castDate(orNull(body.endDate))),
                                 active |-> TRUE,
                                 createdAt |-> now]]]
    /\ UNCHANGED <<sessionStore, OrderVars, CatalogVars, BannerVars, EnvVars, nextId>>

\* await banner.save() and the answer (server.js 673-686).
PostBannerSave(r) ==
    LET loc == reqs[r].loc IN
    /\ reqs[r].pc = "save"
    /\ reqs[r].ep = "POST /admin/banners"
    /\ IF ~loc.startDate.ok \/ ~loc.endDate.ok \/ ~Up("db")
       THEN /\ reqs' = Respond(r, 500, BannerUploadFailed)
            /\ UNCHANGED <<banners, toggleTrace>>
       ELSE /\ banners' = banners \cup {loc.banner}
            /\ toggleTrace' = (loc.id :> <<TRUE>>) @@ toggleTrace
            /\ reqs' = Respond(r, 200,
                  [success |-> TRUE, message |-> "Banner uploaded successfully"])
    /\ UNCHANGED <<sessionStore, OrderVars, CatalogVars, MediaVars, EnvVars, nextId>>

\* GET /banners
GetBanners(r, sid) ==
    LET ep == "GET /banners" IN
    /\ Free(r)
    /\ IF ~Up("db")
       THEN reqs' = Answer(r, ep, sid, now, 500, [docs |-> {}])
       ELSE reqs' = Answer(r, ep, sid, now, 200,
                           [docs |-> find(banners, publicBannersFilter(now))])
    /\ UNCHANGED <<sessionStore, OrderVars, CatalogVars, BannerVars, MediaVars,
                   EnvVars, nextId>>

\* GET /admin/banners: no try/catch around the query.
GetAdminBanners(r, sid) ==
    LET ep == "GET /admin/banners" IN
    /\ Free(r)
    /\ IF ~isAuthenticated(sid)
       THEN reqs' = Unauthorized(r, ep, sid, <<>>)
       ELSE IF ~Up("db")
       THEN \E outcome \in UnhandledOutcomes :
                reqs' = Unhandled(r, ep, sid, <<>>, outcome)
       ELSE reqs' = Answer(r, ep, sid, <<>>, 200, [docs |-> banners])
    /\ UNCHANGED <<sessionStore, OrderVars, CatalogVars, BannerVars, MediaVars,
                   EnvVars, nextId>>

\* DELETE /admin/banners/:id up to the answer of Banner.findById
\* (server.js 728-730); nothing in this handler is inside a try.
DeleteBanner(r, sid, id) ==
    LET ep == "DELETE /admin/banners/:id" IN
    /\ Free(r)
    /\ IF ~isAuthenticated(sid)
       THEN reqs' = Unauthorized(r, ep, sid, id)
       ELSE IF ~isValidObjectId(id) \/ ~Up("db")
       THEN \E outcome \in UnhandledOutcomes :
                reqs' = Unhandled(r, ep, sid, id, outcome)
       ELSE IF ~\E b \in banners : b._id = id
       THEN reqs' = Answer(r, ep, sid, id, 404, [success |-> FALSE])
       ELSE reqs' = Receive(r, ep, sid, id, "destroy",
                            [banner |-> CHOOSE b \in banners : b._id = id])
    /\ UNCHANGED <<sessionStore, OrderVars, CatalogVars, BannerVars, MediaVars,
                   EnvVars, nextId>>

\* await cloudinary.uploader.destroy(banner.publicId)
DeleteBannerDestroy(r) ==
    /\ reqs[r].pc = "destroy"
    /\ reqs[r].ep = "DELETE /admin/banners/:id"
    /\ IF ~Up("cloudinary")
       THEN /\ \E outcome \in UnhandledOutcomes : reqs' = UnhandledLater(r, outcome)
            /\ UNCHANGED cloudinary
       ELSE /\ cloudinary' = cloudinary \ {reqs[r].loc.banner.publicId}
            /\ reqs' = [reqs EXCEPT ![r].pc = "deleteOne"]
    /\ UNCHANGED <<sessionStore, OrderVars, CatalogVars, BannerVars, uploadDir,
                   EnvVars, nextId>>

\* await banner.deleteOne() and the answer.
DeleteBannerDeleteOne(r) ==
    /\ reqs[r].pc = "deleteOne"
    /\ reqs[r].ep = "DELETE /admin/banners/:id"
    /\ IF ~Up("db")
       THEN /\ \E outcome \in UnhandledOutcomes : reqs' = UnhandledLater(r, outcome)
            /\ UNCHANGED banners
       ELSE /\ banners' = {b \in banners : b._id # reqs[r].loc.banner._id}
            /\ reqs' = Respond(r, 200, [success |-> TRUE])
    /\ UNCHANGED <<sessionStore, OrderVars, CatalogVars, toggleTrace, MediaVars,
                   EnvVars, nextId>>

\* banner.active = !banner.active
flip(active) == ~active

\* PATCH /admin/banners/:id/toggle up to the answer of Banner.findById and
\* the flip of the flag in the loaded document (server.js 739-746).
PatchToggle(r, sid, id) ==
    LET ep == "PATCH /admin/banners/:id/toggle" IN
    /\ Free(r)
    /\ IF ~isAuthenticated(sid)
       THEN reqs' = Unauthorized(r, ep, sid, id)
       ELSE IF ~isValidObjectId(id) \/ ~Up("db")
       THEN reqs' = Answer(r, ep, sid, id, 500, [success |-> FALSE])
       ELSE IF ~\E b \in banners : b._id = id
       THEN reqs' = Answer(r, ep, sid, id, 404, [success |-> FALSE])
       ELSE LET banner == CHOOSE b \in banners : b._id = id IN
            reqs' = Receive(r, ep, sid, id, "save",
                            [banner |-> [banner EXCEPT !.active = flip(@)]])
    /\ UNCHANGED <<sessionStore, OrderVars, CatalogVars, BannerVars, MediaVars,
                   EnvVars, nextId>>

Last3(s) == IF Len(s) > 3 THEN SubSeq(s, Len(s) - 2, Len(s)) ELSE s

\* await banner.save(): writes the changed path, and fails when the document
\* is no longer there (server.js 747-752).
PatchToggleSave(r) ==
    LET banner == reqs[r].loc.banner IN
    /\ reqs[r].pc = "save"
    /\ reqs[r].ep = "PATCH /admin/banners/:id/toggle"
    /\ IF ~Up("db") \/ ~\E b \in banners : b._id = banner._id
       THEN /\ reqs' = Respond(r, 500, [success |-> FALSE])
            /\ UNCHANGED <<banners, toggleTrace>>
       ELSE /\ banners' = {IF b._id = banner._id
                           THEN [b EXCEPT !.active = banner.active] ELSE b :
                               b \in banners}
            /\ toggleTrace' = [toggleTrace EXCEPT
                                  ![banner._id] = Last3(Append(@, banner.active))]
            /\ reqs' = Respond(r, 200, [success |-> TRUE, active |-> banner.active])
    /\ UNCHANGED <<sessionStore, OrderVars, CatalogVars, MediaVars, EnvVars, nextId>>

----------------------------------------------------------------------------
(* The environment.                                                        *)

\* Time passes.
Tick ==
    /\ now < MaxTime
    /\ now' = now + 1
    /\ UNCHANGED <<sessionStore, OrderVars, CatalogVars, BannerVars, MediaVars,
                   reqs, nextId, faults>>

Services == {"db", "cloudinary", "smtp"}

\* A collaborator goes down or comes back.
Fail(svc) ==
    /\ svc \notin faults
    /\ faults' = faults \cup {svc}
    /\ UNCHANGED <<sessionStore, OrderVars, CatalogVars, BannerVars, MediaVars,
                   reqs, nextId, now>>

Recover(svc) ==
    /\ svc \in faults
    /\ faults' = faults \ {svc}
    /\ UNCHANGED <<sessionStore, OrderVars, CatalogVars, BannerVars, MediaVars,
                   reqs, nextId, now>>

----------------------------------------------------------------------------
(* The session and the guarded endpoints, one request at a time, every     *)
(* collaborator up.                                                        *)

Small == File(1, "image")
Oversized == File(fileSizeLimit + 1, "image")

GlovesForm == ProductBody(Str("p1"), Str("gloves"), Str("10"), Str("ppe"))
MasksForm == ProductBody(Str("p2"), Str("masks"), Str("25"), Str("ppe"))
UnpricedForm == ProductBody(Str("p2"), Str("masks"), Str("abc"), Str("ppe"))

ProductIds == {"p1", "p2"}

Uploads == {<<Small>>, <<Oversized>>}

Next ==
    \E r \in SeqRequests, sid \in SessionIds :
        \/ \E username \in Usernames, password \in Passwords :
              PostLogin(r, sid, username, password)
        \/ PostLogout(r, sid)
        \/ \E files \in Uploads : PostUpload(r, sid, GlovesForm, files)
        \/ PostUploadImage(r)
        \/ PostUploadSave(r)
        \/ GetProducts(r, sid)
        \/ \E files \in Uploads : PutProduct(r, sid, "p1", GlovesForm, files)
        \/ PutProductDestroy(r)
        \/ PutProductImage(r)
        \/ PutProductUpdate(r)
        \/ DeleteProduct(r, sid, "p1")
        \/ PostOrders(r, sid, OrderBody(Str("A"), Arr(<<Gloves, Mask>>), Num(2650)))
        \/ PostOrdersSave(r)
        \/ \E id \in ObjectIdParams : DeleteOrder(r, sid, id)
        \/ \E files \in Uploads :
              PostBanner(r, sid, BannerBody(Undefined, Undefined, Undefined), files)
        \/ PostBannerUpload(r)
        \/ PostBannerSave(r)
        \/ \E id \in ObjectIdParams : PatchToggle(r, sid, id)
        \/ PatchToggleSave(r)
        \/ \E id \in ObjectIdParams : DeleteBanner(r, sid, id)
        \/ DeleteBannerDestroy(r)
        \/ DeleteBannerDeleteOne(r)

Spec == Init /\ [][Next]_vars

----------------------------------------------------------------------------
(* The catalog with two requests in flight, every collaborator up.         *)

CatalogForms == {GlovesForm, MasksForm, UnpricedForm}

NextCatalog ==
    \E r \in Requests, sid \in SessionIds :
        \/ AdminLogin(r)
        \/ \E body \in CatalogForms, files \in {<<>>, <<Small>>} :
              PostUpload(r, sid, body, files)
        \/ PostUploadImage(r)
        \/ PostUploadSave(r)
        \/ GetProducts(r, sid)
        \/ \E id \in ProductIds : DeleteProduct(r, sid, id)
        \/ \E id \in ProductIds : PutProduct(r, sid, id, MasksForm, <<>>)
        \/ PutProductUpdate(r)

SpecCatalog == Init /\ [][NextCatalog]_vars

----------------------------------------------------------------------------
(* Orders and their receipts, one request at a time, every collaborator up. *)

\* Orders whose stored total differs from, and equals, subtotal plus
\* delivery; one whose subtotal is zero; one whose numbers arrive as strings.
ReceiptOrderBodies ==
    {OrderBody(Str("A"), Arr(<<Gloves, Mask>>), Num(9999)),
     OrderBody(Str("B"), Arr(<<Refund, Mask>>), Num(150)),
     OrderBody(Str("C"), Arr(<<Gloves>>), Num(2150)),
     OrderBody(Str("D"), Arr(<<Quoted, Refund>>), Str("2"))}

NextReceipts ==
    \E r \in SeqRequests, sid \in SessionIds :
        \/ AdminLogin(r)
        \/ \E body \in ReceiptOrderBodies : PostOrders(r, sid, body)
        \/ PostOrdersSave(r)
        \/ RunImmediate
        \/ \E id \in ObjectIdParams : GetOrder(r, sid, id)
        \/ \E id \in ObjectIdParams : DeleteOrder(r, sid, id)
        \/ \E id \in ObjectIdParams : GetReceipt(r, sid, id)
        \/ \E id \in ObjectIdParams : GetReceiptPreview(r, sid, id)

SpecReceipts == Init /\ [][NextReceipts]_vars

----------------------------------------------------------------------------
(* The public list of banners, one request at a time, while time passes.   *)

\* No window, a window open at 1 only, one that is never open, and a start
\* date that is no date.
BannerBodies ==
    {BannerBody(Str("/sale"), Undefined, Undefined),
     BannerBody(Undefined, Str("1"), Str("1")),
     BannerBody(Undefined, Str("2"), Str("0")),
     BannerBody(Undefined, Str("soon"), Undefined)}

NextBanners ==
    \E r \in SeqRequests, sid \in SessionIds :
        \/ AdminLogin(r)
        \/ \E body \in BannerBodies, files \in {<<>>, <<Small>>} :
              PostBanner(r, sid, body, files)
        \/ PostBannerUpload(r)
        \/ PostBannerSave(r)
        \/ GetBanners(r, sid)
        \/ \E id \in ObjectIdParams : PatchToggle(r, sid, id)
        \/ PatchToggleSave(r)
        \/ Tick

SpecBanners == Init /\ [][NextBanners]_vars

----------------------------------------------------------------------------
(* The administration of banners, one request at a time.                   *)

NextToggle ==
    \E r \in SeqRequests, sid \in SessionIds :
        \/ AdminLogin(r)
        \/ \E body \in {BannerBody(Str("/sale"), Undefined, Undefined),
                         BannerBody(Undefined, Str("1"), Str("1"))} :
              PostBanner(r, sid, body, <<Small>>)
        \/ PostBannerUpload(r)
        \/ PostBannerSave(r)
        \/ GetBanners(r, sid)
        \/ GetAdminBanners(r, sid)
        \/ \E id \in ObjectIdParams : PatchToggle(r, sid, id)
        \/ PatchToggleSave(r)
        \/ \E id \in ObjectIdParams : DeleteBanner(r, sid, id)
        \/ DeleteBannerDestroy(r)
        \/ DeleteBannerDeleteOne(r)

SpecToggle == Init /\ [][NextToggle]_vars

----------------------------------------------------------------------------
(* Sessions: two browsers logging in and out while requests of both are in *)
(* flight.                                                                 *)

Browsers == {"s1", "s2"}

NextSession ==
    \E r \in Requests, sid \in Browsers :
        \/ \E password \in {Str("secret"), Str("wrong")} :
              PostLogin(r, sid, Str(ADMIN.username), password)
        \/ PostLogout(r, sid)
        \/ GetCheckAuth(r, sid)
        \/ PostUpload(r, sid, GlovesForm, <<>>)
        \/ PostUploadSave(r)
        \/ PutProduct(r, sid, "p1", GlovesForm, <<>>)
        \/ PutProductUpdate(r)
        \/ DeleteProduct(r, sid, "p1")
        \/ DeleteOrder(r, sid, 1)
        \/ PostBanner(r, sid, BannerBody(Undefined, Undefined, Undefined), <<>>)
        \/ PatchToggle(r, sid, 1)
        \/ DeleteBanner(r, sid, 1)

SpecSession == Init /\ [][NextSession]_vars
----------------------------------------------------------------------------
(* Order intake with incomplete and ill-formed payloads (server.js 516-560). *)

\* The body with the fields of `absent` left out.
Without(body, absent) ==
    [f \in DOMAIN body |-> IF f \in absent THEN Undefined ELSE body[f]]

\* Items that lack one of the three fields the handler asks for, an element
\* that is a number, and one that is null.
Nameless == Item(Undefined, Num(500), Num(1), Undefined, Undefined)
Priceless == Item(Str("mask"), Undefined, Num(1), Undefined, Undefined)
Countless == Item(Str("mask"), Num(500), Undefined, Undefined, Undefined)
Scalar ==
    [t |-> "number", name |-> Undefined, price |-> Undefined, quantity |-> Undefined,
     selectedSize |-> Undefined, selectedColor |-> Undefined]

IntakeCarts ==
    {Arr(<<Gloves, Mask>>), Arr(<<>>), Str("gloves"), Arr(<<Gloves, Nameless>>),
     Arr(<<Priceless>>), Arr(<<Gloves, Countless, Mask>>), Arr(<<Scalar>>),
     Arr(<<Gloves, NullItem>>)}

MaxAbsent == 2

IntakeBodies ==
    {Without(OrderBody(Str("A"), cart, Num(2650)), absent) :
        cart \in IntakeCarts,
        absent \in {S \in SUBSET Range(requiredFields) : Cardinality(S) <= MaxAbsent}}

\* One client at a time sending complete, incomplete and ill-formed orders.
NextIntake ==
    \/ \E r \in SeqRequests :
        \/ \E sid \in SessionIds, body \in IntakeBodies : PostOrders(r, sid, body)
        \/ PostOrdersSave(r)
        \/ \E sid \in SessionIds, id \in ObjectIdParams : GetOrder(r, sid, id)
    \/ RunImmediate

SpecIntake == Init /\ [][NextIntake]_vars
----------------------------------------------------------------------------
(* Order notification while the mail service comes and goes                *)
(* (server.js 571-588, 1138-1155).                                         *)

\* The process exits: the callbacks queued by setImmediate are lost and the
\* requests under way are never answered.  What MongoDB holds stays.
Exit ==
    /\ immediates # <<>> \/ \E r \in Requests : ~Free(r)
    /\ immediates' = <<>>
    /\ reqs' = [r \in Requests |->
                   IF Free(r) THEN reqs[r] ELSE [reqs[r] EXCEPT !.pc = "hung"]]
    /\ UNCHANGED <<sessionStore, orders, mailbox, CatalogVars, BannerVars, MediaVars,
                   EnvVars, nextId>>

NotifyBodies ==
    {OrderBody(Str(id), Arr(<<Gloves, Mask>>), Num(2650)) : id \in {"A", "B"}}

NextNotify ==
    \/ \E r \in Requests :
        \/ \E sid \in SessionIds, body \in NotifyBodies : PostOrders(r, sid, body)
        \/ PostOrdersSave(r)
    \/ RunImmediate
    \/ Fail("smtp")
    \/ Recover("smtp")
    \/ Exit

SpecNotify == Init /\ [][NextNotify]_vars
----------------------------------------------------------------------------
(* Images and their temporary files while the image host comes and goes,   *)
(* one request at a time (server.js 218-495, 638-688).                     *)

RepricedForm == ProductBody(Str("p1"), Str("gloves"), Str("25"), Str("ppe"))

\* Forms that leave out, or leave empty, one of the four required fields.
IncompleteForms ==
    {ProductBody(Undefined, Str("gloves"), Str("10"), Str("ppe")),
     ProductBody(Str("p1"), Str(""), Str("10"), Str("ppe")),
     ProductBody(Str("p1"), Str("gloves"), Undefined, Str("ppe")),
     ProductBody(Str("p1"), Str("gloves"), Str("10"), Str(""))}

MediaForms == {GlovesForm, RepricedForm} \cup IncompleteForms

MediaFiles == {<<>>, <<Small>>, <<Small, Small>>}

NextMedia ==
    \/ \E r \in SeqRequests, sid \in SessionIds :
        \/ AdminLogin(r)
        \/ \E body \in MediaForms, files \in MediaFiles : PostUpload(r, sid, body, files)
        \/ PostUploadImage(r)
        \/ PostUploadSave(r)
        \/ \E id \in ProductIds, body \in MediaForms, files \in MediaFiles :
              PutProduct(r, sid, id, body, files)
        \/ PutProductDestroy(r)
        \/ PutProductImage(r)
        \/ PutProductUpdate(r)
        \/ \E files \in {<<>>, <<Small>>} :
              PostBanner(r, sid, BannerBody(Undefined, Undefined, Undefined), files)
        \/ PostBannerUpload(r)
        \/ PostBannerSave(r)
    \/ Fail("cloudinary")
    \/ Recover("cloudinary")

SpecMedia == Init /\ [][NextMedia]_vars
----------------------------------------------------------------------------
(* Updates of one product's images with two requests in flight, every      *)
(* collaborator up (server.js 355-495).                                    *)

NextUpdate ==
    \E r \in Requests, sid \in SessionIds :
        \/ AdminLogin(r)
        \/ PostUpload(r, sid, GlovesForm, <<Small>>)
        \/ PostUploadImage(r)
        \/ PostUploadSave(r)
        \/ \E id \in ProductIds, body \in {GlovesForm, RepricedForm},
              files \in MediaFiles : PutProduct(r, sid, id, body, files)
        \/ PutProductDestroy(r)
        \/ PutProductImage(r)
        \/ PutProductUpdate(r)

SpecUpdate == Init /\ [][NextUpdate]_vars
----------------------------------------------------------------------------
(* Deletion of banners with two requests in flight while the database and  *)
(* the image host come and go (server.js 727-736).                         *)

NextBannerDelete ==
    \/ \E r \in Requests, sid \in SessionIds :
        \/ AdminLogin(r)
        \/ PostBanner(r, sid, BannerBody(Undefined, Undefined, Undefined), <<Small>>)
        \/ PostBannerUpload(r)
        \/ PostBannerSave(r)
        \/ \E id \in ObjectIdParams : DeleteBanner(r, sid, id)
        \/ DeleteBannerDestroy(r)
        \/ DeleteBannerDeleteOne(r)
    \/ \E svc \in {"db", "cloudinary"} : Fail(svc) \/ Recover(svc)

SpecBannerDelete == Init /\ [][NextBannerDelete]_vars
----------------------------------------------------------------------------
(* Every endpoint, one request at a time, while the database and the image *)
(* host come and go.                                                       *)

FaultIds == {MalformedId, 1}

NextFaults ==
    \/ \E r \in SeqRequests, sid \in SessionIds :
        \/ \E password \in {Str("secret"), Undefined} :
              PostLogin(r, sid, Str(ADMIN.username), password)
        \/ PostLogout(r, sid)
        \/ GetCheckAuth(r, sid)
        \/ PostUpload(r, sid, GlovesForm, <<Small>>)
        \/ PostUploadImage(r)
        \/ PostUploadSave(r)
        \/ GetProducts(r, sid)
        \/ PutProduct(r, sid, "p1", GlovesForm, <<Small>>)
        \/ PutProductDestroy(r)
        \/ PutProductImage(r)
        \/ PutProductUpdate(r)
        \/ DeleteProduct(r, sid, "p1")
        \/ PostOrders(r, sid, OrderBody(Str("A"), Arr(<<Gloves, Mask>>), Num(2650)))
        \/ PostOrdersSave(r)
        \/ GetOrders(r, sid)
        \/ \E id \in FaultIds : GetOrder(r, sid, id)
        \/ \E id \in FaultIds : DeleteOrder(r, sid, id)
        \/ \E id \in FaultIds : GetReceipt(r, sid, id)
        \/ \E id \in FaultIds : GetReceiptPreview(r, sid, id)
        \/ PostBanner(r, sid, BannerBody(Undefined, Undefined, Undefined), <<Small>>)
        \/ PostBannerUpload(r)
        \/ PostBannerSave(r)
        \/ GetBanners(r, sid)
        \/ GetAdminBanners(r, sid)
        \/ \E id \in FaultIds : PatchToggle(r, sid, id)
        \/ PatchToggleSave(r)
        \/ \E id \in FaultIds : DeleteBanner(r, sid, id)
        \/ DeleteBannerDestroy(r)
        \/ DeleteBannerDeleteOne(r)
    \/ \E svc \in {"db", "cloudinary"} : Fail(svc) \/ Recover(svc)

SpecFaults == Init /\ [][NextFaults]_vars
----------------------------------------------------------------------------
(* Toggles of one banner with two requests in flight, every collaborator   *)
(* up (server.js 739-753).                                                 *)

NextToggleRace ==
    \E r \in Requests, sid \in SessionIds :
        \/ AdminLogin(r)
        \/ PostBanner(r, sid, BannerBody(Undefined, Undefined, Undefined), <<Small>>)
        \/ PostBannerUpload(r)
        \/ PostBannerSave(r)
        \/ \E id \in ObjectIdParams : PatchToggle(r, sid, id)
        \/ PatchToggleSave(r)
        \/ GetAdminBanners(r, sid)

SpecToggleRace == Init /\ [][NextToggleRace]_vars
----------------------------------------------------------------------------
(* Orders that are refused, one request at a time, while the database      *)
(* comes and goes (server.js 511-597).                                     *)

\* Items whose price or quantity is the number 0, and one whose price is the
\* string "0".
Costless == Item(Str("mask"), Num(0), Num(1), Undefined, Undefined)
Uncounted == Item(Str("mask"), Num(500), Num(0), Undefined, Undefined)
ZeroPriced == Item(Str("mask"), Str("0"), Num(1), Undefined, Undefined)

ZeroBodies ==
    {OrderBody(Str("Z"), Arr(<<Gloves, Mask>>), Num(0)),
     OrderBody(Str("Z"), Arr(<<Gloves, Costless>>), Num(2150)),
     OrderBody(Str("Z"), Arr(<<Uncounted, Mask>>), Num(650)),
     OrderBody(Str("Z"), Arr(<<Gloves, Mask>>), Str("0")),
     OrderBody(Str("Y"), Arr(<<ZeroPriced>>), Num(150))}

RejectBodies ==
    ZeroBodies
    \cup {OrderBody(Str("A"), cart, Num(2650)) : cart \in IntakeCarts}
    \cup {Without(OrderBody(Str("A"), Arr(<<Gloves, Mask>>), Num(2650)), {f}) :
             f \in Range(requiredFields)}
    \cup {OrderBody(Str("A"), Arr(<<Unpriced>>), Num(650))}

NextRejects ==
    \/ \E r \in SeqRequests :
        \/ \E sid \in SessionIds, body \in RejectBodies : PostOrders(r, sid, body)
        \/ PostOrdersSave(r)
    \/ RunImmediate
    \/ Fail("db")
    \/ Recover("db")

SpecRejects == Init /\ [][NextRejects]_vars

----------------------------------------------------------------------------
(* Properties settled against the model, one per claim of the specification. *)

\* The checks of POST /orders that precede the database: required fields,
\* cartItems, each item.
HandlerAccepts(body) ==
    /\ FirstMissing(body) = 0
    /\ body.cartItems.t = "array"
    /\ Len(body.cartItems.items) > 0
    /\ FirstRejectedItem(body.cartItems.items) = 0

PassesValidation(body) == HandlerAccepts(body) /\ orderSchemaValid(body)

StoredUnder(coll, body) == {o \in coll : o.orderId = castString(body.orderId).s}

\* The stored item carries the submitted name, price and quantity.
SameItem(stored, sent) ==
    /\ stored.name = sent.name.s
    /\ stored.price = castNumber(sent.price).n
    /\ stored.quantity = castNumber(sent.quantity).n

Answered(r, ep) == reqs[r].pc = "done" /\ reqs[r].ep = ep

\* A step in which request r is answered.
AnsweredNow(r, ep) ==
    /\ reqs[r].pc # "done" \/ reqs'[r] # reqs[r]
    /\ reqs'[r].pc = "done"
    /\ reqs'[r].ep = ep

\* C1: a POST /orders request whose payload passes validation (the handler's
\* checks and the schema's) and whose orderId is carried by no stored order
\* when it is answered, is answered 201, and then exactly one stored order
\* has that orderId, with the submitted cartItems in the submitted order.
C1_ValidOrderIsStored ==
    [][\A r \in Requests :
        (/\ AnsweredNow(r, "POST /orders")
         /\ PassesValidation(reqs'[r].in)
         /\ StoredUnder(orders, reqs'[r].in) = {})
        => /\ reqs'[r].res.status = 201
           /\ Cardinality(StoredUnder(orders', reqs'[r].in)) = 1
           /\ \A o \in StoredUnder(orders', reqs'[r].in) :
                LET sent == reqs'[r].in.cartItems.items IN
                /\ o._id = reqs'[r].res.body.orderId
                /\ Len(o.cartItems) = Len(sent)
                /\ \A i \in DOMAIN sent : SameItem(o.cartItems[i], sent[i])]_vars

C1_Witness ==
    \E r \in Requests :
        /\ Answered(r, "POST /orders")
        /\ reqs[r].res.status = 201
        /\ \E o \in orders :
              /\ o._id = reqs[r].res.body.orderId
              /\ Len(o.cartItems) = 2
              /\ o.cartItems[1].name = "gloves"

\* C2: of two valid POST /orders requests with the same orderId, one creates
\* the order, exactly one order with that orderId is stored, and the request
\* that did not create it is answered 400.
C2_LoserAnswered400 ==
    \A r1, r2 \in Requests :
        (/\ r1 # r2
         /\ Answered(r1, "POST /orders") /\ Answered(r2, "POST /orders")
         /\ PassesValidation(reqs[r1].in) /\ PassesValidation(reqs[r2].in)
         /\ reqs[r1].in.orderId = reqs[r2].in.orderId
         /\ reqs[r1].res.status = 201
         /\ reqs[r2].res.status # 201)
        => /\ Cardinality(StoredUnder(orders, reqs[r1].in)) = 1
           /\ reqs[r2].res.status = 400

\* C3: no two stored orders have the same orderId.
C3_OrderIdUnique ==
    \A o1, o2 \in orders : o1.orderId = o2.orderId => o1 = o2

\* The unique index refused an insert while another order was stored and
\* one had been deleted.
C3_Witness ==
    /\ \E r \in Requests :
          /\ Answered(r, "POST /orders")
          /\ reqs[r].res.status = 500
          /\ reqs[r].res.body.error = "E11000 duplicate key"
    /\ Cardinality(orders) = 2

GuardedEndpoints ==
    {"POST /upload", "PUT /products/:id", "DELETE /products/:id",
     "DELETE /orders/:id", "POST /admin/banners",
     "PATCH /admin/banners/:id/toggle", "DELETE /admin/banners/:id"}

\* A step in which slot r takes a new request.
ReceivedNow(r) == Free(r) /\ reqs'[r] # reqs[r]

\* C4: a request to a guarded endpoint whose session is not logged in is
\* answered 401 {authenticated: false} in the step that receives it, and that
\* step changes neither the products, the orders, the banners, the image
\* host nor the upload directory.
C4_UnauthenticatedIsRefused ==
    [][\A r \in Requests :
        (/\ ReceivedNow(r)
         /\ reqs'[r].ep \in GuardedEndpoints
         /\ reqs'[r].sid \notin sessionStore)
        => /\ reqs'[r].pc = "done"
           /\ reqs'[r].res.status = 401
           /\ reqs'[r].res.body = [authenticated |-> FALSE]
           /\ products' = products /\ orders' = orders /\ banners' = banners
           /\ cloudinary' = cloudinary /\ uploadDir' = uploadDir]_vars

\* Each guarded endpoint has refused a request of a logged-out session while
\* a product, an order, a banner and their images were stored.
C4_Witness ==
    /\ sessionStore = {}
    /\ products # {} /\ orders # {} /\ banners # {} /\ cloudinary # {}
    /\ \E r \in Requests :
          /\ reqs[r].pc = "done"
          /\ reqs[r].ep = "DELETE /admin/banners/:id"
          /\ reqs[r].in \in {b._id : b \in banners}
          /\ reqs[r].res.status = 401

UploadEndpoints == {"POST /upload", "PUT /products/:id", "POST /admin/banners"}

CarriesOversizedImage(files) ==
    /\ \A i \in DOMAIN files : isImage(files[i])
    /\ \E i \in DOMAIN files : files[i].size > fileSizeLimit

\* C5: an upload request of a logged-in session that carries an image above
\* the 10 MiB limit is answered 400 in the step that receives it, and that
\* step changes no product and no banner and leaves no file of the request
\* in the upload directory.
C5_OversizedAnswered400 ==
    [][\A r \in Requests :
        (/\ ReceivedNow(r)
         /\ reqs'[r].ep \in UploadEndpoints
         /\ reqs'[r].sid \in sessionStore
         /\ CarriesOversizedImage(reqs'[r].in.files))
        => /\ reqs'[r].pc = "done"
           /\ reqs'[r].res.status = 400
           /\ products' = products /\ banners' = banners
           /\ uploadDir' = uploadDir]_vars

ReceiptEndpoints == {"GET /orders/:id/receipt", "GET /orders/:id/receipt/preview"}

\* The sum over all items of price * quantity.
RECURSIVE SumOfLines(_)
SumOfLines(items) ==
    IF items = <<>> THEN 0
    ELSE Head(items).price * Head(items).quantity + SumOfLines(Tail(items))

\* The amounts a page shows right after the label `text`.
AmountsAfter(pdf, text) ==
    {pdf[i + 1].value : i \in {j \in DOMAIN pdf :
        /\ pdf[j].kind = "label" /\ pdf[j].text = text
        /\ j + 1 \in DOMAIN pdf /\ pdf[j + 1].kind = "amount"}}

\* C6: the page either receipt endpoint answers for a stored order shows as
\* subtotal the sum of price * quantity over its cartItems, as delivery
\* charge 150 when that sum is positive and 0 otherwise, and as total the
\* stored totalAmount.
C6_ReceiptTotals ==
    [][\A r \in Requests :
        (/\ reqs'[r].pc = "done" /\ reqs'[r] # reqs[r]
         /\ reqs'[r].ep \in ReceiptEndpoints
         /\ \E o \in orders : o._id = reqs'[r].in)
        => LET order == CHOOSE o \in orders : o._id = reqs'[r].in
               pdf == reqs'[r].res.body.pdf
               sum == SumOfLines(order.cartItems)
           IN /\ reqs'[r].res.status = 200
              /\ AmountsAfter(pdf, "Sub Total:") = {sum}
              /\ AmountsAfter(pdf, "Delivery Charges:") =
                    {IF sum > 0 THEN 150 ELSE 0}
              /\ AmountsAfter(pdf, "Total Amount:") = {order.totalAmount}]_vars

\* A receipt was answered for the order of two gloves at 1000 and one mask at
\* 500 stored with total 9999: subtotal 2500, delivery 150, total 9999.
C6_Witness ==
    \E r \in Requests :
        /\ Answered(r, "GET /orders/:id/receipt")
        /\ reqs[r].res.status = 200
        /\ AmountsAfter(reqs[r].res.body.pdf, "Sub Total:") = {2500}
        /\ AmountsAfter(reqs[r].res.body.pdf, "Delivery Charges:") = {150}
        /\ AmountsAfter(reqs[r].res.body.pdf, "Total Amount:") = {9999}

Ids(coll) == {d._id : d \in coll}

Succeeded(r, ep, status) ==
    AnsweredNow(r, ep) /\ reqs'[r].res.status = status

\* C7: every successful POST /upload adds exactly one product, the one it
\* returns; every successful DELETE /products/:id removes exactly one, the
\* one with the id it names; a step that adds or removes a product is one of
\* these two; and GET /products returns the products stored.  Hence, from
\* the empty catalog, after N successful creations and M successful
\* deletions the list holds the N - M created products that were not deleted.
C7_CatalogCount ==
    [][/\ \A r \in Requests :
            /\ Succeeded(r, "POST /upload", 200)
                  => Cardinality(products') = Cardinality(products) + 1
            /\ Succeeded(r, "DELETE /products/:id", 200)
                  => Cardinality(products') = Cardinality(products) - 1
            /\ Succeeded(r, "GET /products", 200)
                  => /\ reqs'[r].res.body.docs = products
                     /\ products' = products
       /\ Ids(products') # Ids(products)
          => \E r \in Requests :
                /\ reqs'[r].pc = "done"
                /\ reqs'[r].res.status = 200
                /\ \/ /\ reqs'[r].ep = "POST /upload"
                      /\ reqs'[r].res.body.product \notin products
                      /\ products' = products \cup {reqs'[r].res.body.product}
                   \/ /\ reqs'[r].ep = "DELETE /products/:id"
                      /\ \E p \in products :
                            /\ p.id = reqs'[r].in
                            /\ products' = products \ {p}]_vars

\* Two products were created, one of them was deleted, and GET /products
\* has returned the one that is left.
C7_Witness ==
    \E r1, r2 \in Requests :
        /\ Answered(r1, "DELETE /products/:id")
        /\ reqs[r1].res.status = 200
        /\ Answered(r2, "GET /products")
        /\ reqs[r2].res.status = 200
        /\ reqs[r2].res.body.docs = products
        /\ Cardinality(products) = 1
        /\ \A p \in products : p.id # reqs[r1].in

TogglePath == "PATCH /admin/banners/:id/toggle"

\* The banners a visitor is to see at time t.
VisibleAt(coll, t) ==
    {b \in coll :
        /\ b.active
        /\ b.startDate.t = "null" \/ b.startDate.n <= t
        /\ b.endDate.t = "null" \/ b.endDate.n >= t}

\* What a step does with a toggle request: a successful one stores the
\* negation of the banner's flag and changes nothing else; of the last three
\* values stored for a banner the third equals the first, so that after two
\* successive toggles the banner is in the public list exactly if it was
\* before; one that names an id in `unknown` is answered 404 and changes no
\* banner.
ToggleLaw(r, unknown) ==
    /\ Succeeded(r, TogglePath, 200)
          => \E b \in banners :
                /\ b._id = reqs'[r].in
                /\ banners' = (banners \ {b}) \cup {[b EXCEPT !.active = ~b.active]}
                /\ reqs'[r].res.body.active = ~b.active
                /\ LET t == toggleTrace'[b._id] IN
                   Len(t) = 3 =>
                      /\ t[3] = t[1]
                      /\ \A b1 \in banners' : b1._id = b._id =>
                            (b1 \in VisibleAt(banners', now) <=>
                                (t[1] /\ [b EXCEPT !.active = TRUE]
                                            \in VisibleAt({[b EXCEPT !.active = TRUE]}, now)))
    /\ (/\ ReceivedNow(r)
        /\ reqs'[r].ep = TogglePath
        /\ reqs'[r].sid \in sessionStore
        /\ reqs'[r].in \in unknown)
          => /\ reqs'[r].pc = "done"
             /\ reqs'[r].res.status = 404
             /\ banners' = banners

C8_ToggleTwiceRestoresWellFormed ==
    [][\A r \in Requests :
          ToggleLaw(r, {id \in ObjectIdParams : isValidObjectId(id)} \ Ids(banners))]_vars

\* A banner has been toggled twice and a toggle of an unknown id refused.
C8_Witness ==
    /\ \E id \in DOMAIN toggleTrace :
          /\ Len(toggleTrace[id]) = 3
          /\ \E b \in banners : b._id = id /\ b.active
    /\ \E r \in Requests :
          /\ Answered(r, TogglePath)
          /\ reqs[r].res.status = 404

\* C9: GET /banners answers with exactly the stored banners that are active,
\* whose startDate is null or not after now, and whose endDate is null or not
\* before now.
C9_PublicListIsTheWindow ==
    [][\A r \in Requests :
        (/\ reqs'[r].pc = "done" /\ reqs'[r] # reqs[r]
         /\ reqs'[r].ep = "GET /banners")
        => /\ reqs'[r].res.status = 200
           /\ reqs'[r].res.body.docs = VisibleAt(banners, now)]_vars

\* The list was answered with one banner shown and two active ones held
\* back, one not yet started and one already over.
C9_Witness ==
    \E r \in Requests :
        /\ Answered(r, "GET /banners")
        /\ reqs[r].in = now
        /\ reqs[r].res.body.docs # {}
        /\ \E b1, b2 \in banners \ reqs[r].res.body.docs :
              /\ b1.active /\ b1.startDate.t = "number" /\ b1.startDate.n > now
              /\ b2.active /\ b2.endDate.t = "number" /\ b2.endDate.n < now

\* C10: a POST /login request with the admin username and the password the
\* admin hash was made from is answered with success and its session is
\* logged in; every other POST /login request is answered 401 with the
\* generic invalid-credentials body.
C10_FailedLoginIsGeneric ==
    \A r \in Requests :
        (reqs[r].pc \in {"done", "hung"} /\ reqs[r].ep = "POST /login")
        => IF /\ reqs[r].in.username = Str(ADMIN.username)
              /\ reqs[r].in.password = Str(ADMIN.password.hashOf)
           THEN /\ reqs[r].pc = "done"
                /\ reqs[r].res.status = 200
                /\ reqs[r].sid \in sessionStore
           ELSE /\ reqs[r].pc = "done"
                /\ reqs[r].res.status = 401
                /\ reqs[r].res.body =
                      [success |-> FALSE, message |-> "Invalid credentials"]

SessionEndpoints == GuardedEndpoints \cup {"GET /check-auth"}

\* C11: a successful POST /logout leaves no record of its session; a session
\* without a record gets one only by a successful POST /login of that session
\* with the admin's credentials; and a request of a session without a record
\* to GET /check-auth or to a guarded route is answered 401.  Hence after a
\* successful logout every request of that session to these routes is
\* answered 401 until a new successful login.
C11_LoggedOutUntilLogin ==
    [][/\ \A r \in Requests :
            /\ Succeeded(r, "POST /logout", 200)
                  => reqs'[r].sid \notin sessionStore'
            /\ (/\ ReceivedNow(r)
                /\ reqs'[r].ep \in SessionEndpoints
                /\ reqs'[r].sid \notin sessionStore)
                  => /\ reqs'[r].pc = "done"
                     /\ reqs'[r].res.status = 401
                     /\ reqs'[r].res.body = [authenticated |-> FALSE]
       /\ \A sid \in sessionStore' \ sessionStore :
             \E r \in Requests :
                /\ reqs'[r].pc = "done"
                /\ reqs'[r].ep = "POST /login"
                /\ reqs'[r].sid = sid
                /\ reqs'[r].res.status = 200
                /\ reqs'[r].in.username = Str(ADMIN.username)
                /\ reqs'[r].in.password = Str(ADMIN.password.hashOf)]_vars

\* One browser has logged out and its next request to GET /check-auth was
\* answered 401, while the other browser is still logged in and a product
\* uploaded under a session is stored.
C11_Witness ==
    /\ products # {}
    /\ \E r1, r2 \in Requests :
          /\ Answered(r1, "POST /logout")
          /\ reqs[r1].res.status = 200
          /\ Answered(r2, "GET /check-auth")
          /\ reqs[r2].sid = reqs[r1].sid
          /\ reqs[r2].res.status = 401
          /\ sessionStore = Browsers \ {reqs[r1].sid}

\* The required fields the body does not carry, and the first of them in the
\* handler's order.
AbsentFields(body) == {i \in DOMAIN requiredFields : body[requiredFields[i]] = Undefined}

RECURSIVE FirstAbsentFrom(_, _)
FirstAbsentFrom(body, i) ==
    IF i > Len(requiredFields) THEN 0
    ELSE IF body[requiredFields[i]] = Undefined THEN i
    ELSE FirstAbsentFrom(body, i + 1)

\* C12: a POST /orders request with one or more required fields absent is
\* answered 400 with the message naming the first absent field in the order
\* orderId, name, contact, city, houseNo, Block, Area, landmark,
\* paymentMethod, cartItems, totalAmount, whatever its cartItems are and
\* whether or not an order with its orderId is stored; nothing is stored.
C12_FirstAbsentFieldNamed ==
    [][\A r \in Requests :
        (/\ reqs'[r] # reqs[r]
         /\ reqs'[r].ep = "POST /orders"
         /\ AbsentFields(reqs'[r].in) # {})
        => /\ reqs'[r].pc = "done"
           /\ reqs'[r].res.status = 400
           /\ reqs'[r].res.body =
                 [success |-> FALSE, message |-> "Missing required field",
                  field |-> requiredFields[FirstAbsentFrom(reqs'[r].in, 1)]]
           /\ orders' = orders]_vars

\* Two fields are absent, the cartItems sent are empty and an order with the
\* same orderId is stored: the answer names the earlier of the two fields.
C12_Witness ==
    \E r \in Requests :
        /\ Answered(r, "POST /orders")
        /\ AbsentFields(reqs[r].in) = {4, 11}
        /\ reqs[r].in.cartItems = Arr(<<>>)
        /\ \E o \in orders : o.orderId = reqs[r].in.orderId.s
        /\ reqs[r].res.status = 400
        /\ reqs[r].res.body.field = "city"

\* An element of cartItems that carries no name, no price or no quantity.
Lacking(item) ==
    item.name = Undefined \/ item.price = Undefined \/ item.quantity = Undefined

IllFormedCart(cart) ==
    \/ cart.t # "array"
    \/ cart.items = <<>>
    \/ \E i \in DOMAIN cart.items : Lacking(cart.items[i])

CartLaw(r, elements) ==
    (/\ reqs'[r] # reqs[r]
     /\ reqs'[r].ep = "POST /orders"
     /\ AbsentFields(reqs'[r].in) = {}
     /\ IllFormedCart(reqs'[r].in.cartItems)
     /\ \A i \in DOMAIN reqs'[r].in.cartItems.items :
           reqs'[r].in.cartItems.items[i].t \in elements)
    => /\ reqs'[r].pc = "done"
       /\ reqs'[r].res.status = 400
       /\ orders' = orders

\* C13: a POST /orders request that carries every required field but whose
\* cartItems is not a sequence, is empty, or contains an item lacking name,
\* price or quantity is answered 400, and no order is stored.
C13_IllFormedCartAnswered400 ==
    [][\A r \in Requests : CartLaw(r, {"object", "number", "null"})]_vars

\* The same for carts none of whose elements is null.
C13_IllFormedCartOfObjects ==
    [][\A r \in Requests : CartLaw(r, {"object", "number"})]_vars

C13_Witness ==
    \E r \in Requests :
        /\ Answered(r, "POST /orders")
        /\ AbsentFields(reqs[r].in) = {}
        /\ reqs[r].in.cartItems = Arr(<<Gloves, Countless, Mask>>)
        /\ reqs[r].res.status = 400
        /\ orders # {}

Attempted(box) == {m.order : m \in box}

\* C14: the step that answers a POST /orders request 201 is the step that
\* queues the notification of its order, and no attempt for that order has
\* been made by then; an attempt, sent or failed, and the loss of the queue
\* when the process exits leave the answers already given and the stored
\* orders as they were; a failed attempt is recorded and its order is
\* neither queued nor attempted again.
C14_NotificationIsDetached ==
    [][/\ \A id \in Range(immediates') \ Range(immediates) :
             /\ id \notin Attempted(mailbox')
             /\ \E r \in Requests :
                   /\ reqs[r].pc = "save"
                   /\ reqs'[r].pc = "done"
                   /\ reqs'[r].res.status = 201
                   /\ reqs'[r].res.body.orderId = id
                   /\ \E o \in orders' : o._id = id
       /\ mailbox' # mailbox =>
             /\ immediates # <<>>
             /\ Head(immediates) \notin Attempted(mailbox)
             /\ \E outcome \in {"sent", "failed"} :
                   /\ outcome = "sent" <=> "smtp" \notin faults
                   /\ mailbox' = mailbox \cup
                         {[order |-> Head(immediates), outcome |-> outcome]}
             /\ immediates' = Tail(immediates)
             /\ reqs' = reqs
             /\ orders' = orders
       /\ (Len(immediates') < Len(immediates) /\ mailbox' = mailbox) =>
             /\ orders' = orders
             /\ \A r \in Requests : reqs[r].pc = "done" => reqs'[r] = reqs[r]
       /\ Attempted(mailbox') \cap Range(immediates') = {}]_vars

\* One notification failed and was logged, another was lost when the process
\* exited; the mail service is up again and nothing is queued.
C14_Witness ==
    /\ immediates = <<>>
    /\ Cardinality(orders) = 2
    /\ "smtp" \notin faults
    /\ \E m \in mailbox : m.outcome = "failed"
    /\ \E o \in orders : o._id \notin Attempted(mailbox)
    /\ \E r \in Requests :
          /\ Answered(r, "POST /orders")
          /\ reqs[r].res.status = 201
          /\ [order |-> reqs[r].res.body.orderId, outcome |-> "failed"] \in mailbox

OrderByIdLaw(r, malformedStatus) ==
    (reqs'[r] # reqs[r] /\ reqs'[r].ep = "GET /orders/:id")
    => LET id == reqs'[r].in
           found == {o \in orders : o._id = id}
       IN
       /\ reqs'[r].pc = "done"
       /\ orders' = orders
       /\ IF id = MalformedId THEN reqs'[r].res.status = malformedStatus
          ELSE IF found = {} THEN reqs'[r].res.status = 404
          ELSE /\ reqs'[r].res.status = 200
               /\ reqs'[r].res.body.doc \in found

\* C15: GET /orders/:id is answered 400 for an id that is not a well-formed
\* ObjectId, 404 for a well-formed id that no stored order has, and with the
\* stored order for the id of a stored order.
C15_OrderById ==
    [][\A r \in Requests : OrderByIdLaw(r, 400)]_vars

\* The same with the answer the handler gives to a malformed id.
C15_OrderByIdCastError ==
    [][\A r \in Requests : OrderByIdLaw(r, 500)]_vars

C15_Witness ==
    \E r \in Requests :
        /\ Answered(r, "GET /orders/:id")
        /\ reqs[r].in = MalformedId
        /\ orders # {}

Streams(res) == "pdf" \in DOMAIN res.body

\* C16: either receipt endpoint answers 400 to an id that is not a
\* well-formed ObjectId and 404 to a well-formed id that no stored order
\* has, in both cases without a PDF; a PDF is answered only for the id of a
\* stored order, and no order is changed.
C16_ReceiptOnlyForStoredOrder ==
    [][\A r \in Requests :
        (reqs'[r] # reqs[r] /\ reqs'[r].ep \in ReceiptEndpoints)
        => LET id == reqs'[r].in
               found == {o \in orders : o._id = id}
           IN
           /\ reqs'[r].pc = "done"
           /\ orders' = orders
           /\ id = MalformedId =>
                 reqs'[r].res.status = 400 /\ ~Streams(reqs'[r].res)
           /\ (id # MalformedId /\ found = {}) =>
                 reqs'[r].res.status = 404 /\ ~Streams(reqs'[r].res)
           /\ Streams(reqs'[r].res) => found # {} /\ reqs'[r].res.status = 200
           /\ found # {} => Streams(reqs'[r].res)]_vars

\* The preview of an order that was stored and then deleted is answered 404
\* while other orders are stored.
C16_Witness ==
    \E r \in Requests :
        /\ Answered(r, "GET /orders/:id/receipt/preview")
        /\ reqs[r].res.status = 404
        /\ reqs[r].in # MalformedId
        /\ reqs[r].in < nextId
        /\ orders # {}

ProductFormEndpoints == {"POST /upload", "PUT /products/:id"}

\* One of id, name, price and category is missing from the form or empty.
Incomplete(body) ==
    \E f \in {"id", "name", "price", "category"} : body[f] \in {Undefined, Str("")}

\* C17: an authenticated POST /upload or PUT /products/:id whose form lacks
\* id, name, price or category, or has one of them empty, is answered 400
\* with the message that lists the required fields; no product is created or
\* changed and nothing is uploaded to or deleted from the image host.
C17_IncompleteFormRefused ==
    [][\A r \in Requests :
        (/\ ReceivedNow(r)
         /\ reqs'[r].ep \in ProductFormEndpoints
         /\ reqs'[r].sid \in sessionStore
         /\ multerError(reqs'[r].in.files) = "none"
         /\ Incomplete(reqs'[r].in.body))
        => /\ reqs'[r].pc = "done"
           /\ reqs'[r].res.status = 400
           /\ reqs'[r].res.body =
                 [message |-> "Missing required fields: id, name, price, category"]
           /\ products' = products
           /\ cloudinary' = cloudinary]_vars

\* A PUT with two new images and an empty category for a stored product that
\* has images on the image host.
C17_Witness ==
    \E r \in Requests :
        /\ Answered(r, "PUT /products/:id")
        /\ reqs[r].res.status = 400
        /\ Len(reqs[r].in.files) = 2
        /\ reqs[r].in.body.category = Str("")
        /\ \E p \in products : p.id = reqs[r].in.id /\ Len(p.images) > 0
        /\ cloudinary # {}

\* The temporary files of request r that are still in the upload directory.
Leftover(r, dir) == tempFiles(reqs[r].loc.id, reqs[r].in.files) \cap dir

\* For a request to one of `endpoints`: the file whose upload is attempted in
\* a step is gone after the step, and a request that has attempted an upload
\* ends with none of its temporary files left.
TempFileLaw(r, endpoints) ==
    (reqs[r].ep \in endpoints /\ reqs'[r] # reqs[r]) =>
        /\ reqs[r].pc = "upload" =>
              \A f \in Leftover(r, uploadDir') :
                 reqs'[r].pc = "upload" /\ f.idx >= reqs'[r].loc.i
        /\ (/\ reqs[r].pc \in {"upload", "save", "update"}
            /\ reqs'[r].pc = "done") => Leftover(r, uploadDir') = {}

\* C18: in POST /upload, PUT /products/:id and POST /admin/banners the
\* temporary file of an image is removed once its upload to the image host
\* has been attempted, whether the upload succeeded or failed, and no
\* request that attempted an upload ends with a temporary file left.
C18_TempFilesRemoved ==
    [][\A r \in Requests : TempFileLaw(r, UploadEndpoints)]_vars

\* The same for the two product endpoints alone.
C18_ProductTempFilesRemoved ==
    [][\A r \in Requests : TempFileLaw(r, ProductFormEndpoints)]_vars

\* A product upload of two images failed at the second one.
C18_Witness ==
    \E r \in Requests :
        /\ Answered(r, "POST /upload")
        /\ reqs[r].res.status = 500
        /\ Len(reqs[r].in.files) = 2
        /\ Len(reqs[r].loc.imageUrls) = 1
        /\ uploadDir = {}

\* C19: when the upload of an image to the image host fails during
\* POST /upload, the request is answered 500 with the error's detail and the
\* products collection is unchanged, also when earlier images of the same
\* request have been uploaded.
C19_FailedUploadCreatesNothing ==
    [][\A r \in Requests :
        (/\ reqs[r].pc = "upload"
         /\ reqs[r].ep = "POST /upload"
         /\ reqs'[r] # reqs[r]
         /\ "cloudinary" \in faults)
        => /\ reqs'[r].pc = "done"
           /\ reqs'[r].res.status = 500
           /\ reqs'[r].res.body.message = "Failed to upload product"
           /\ reqs'[r].res.body.error = "upload failed"
           /\ products' = products
           /\ cloudinary' = cloudinary]_vars

\* The second image of a request failed after the first had reached the
\* image host; no product has the request's id.
C19_Witness ==
    \E r \in Requests :
        /\ Answered(r, "POST /upload")
        /\ reqs[r].res.status = 500
        /\ reqs[r].res.body.error = "upload failed"
        /\ Len(reqs[r].loc.imageUrls) = 1
        /\ uploadedAsset("myr-surgical", reqs[r].loc.id, 1) \in cloudinary
        /\ ~\E p \in products : p._id = reqs[r].loc.id

\* The URLs of the images request r uploaded, in the order of its files.
NewUrls(r) ==
    [i \in DOMAIN reqs[r].in.files |->
        secureUrl(uploadedAsset("myr-surgical", reqs[r].loc.id, i))]

Except(coll, id) == {p \in coll : p.id # id}

\* C20: a PUT /products/:id answered 200 that carries no files leaves the
\* image list of the product as it is; one that carries files makes the
\* image list the URLs of the new uploads, in upload order; in both cases
\* the other products are unchanged.  A PUT for an id that no product has is
\* answered 404 and changes no product and nothing on the image host.
C20_PutFrame ==
    [][\A r \in Requests :
        /\ (/\ reqs[r].pc = "update"
            /\ reqs[r].ep = "PUT /products/:id"
            /\ reqs'[r].pc = "done"
            /\ reqs'[r].res.status = 200)
           => /\ \A p \in products : p.id = reqs[r].in.id =>
                    \E q \in products' :
                       /\ q._id = p._id
                       /\ q.images = IF reqs[r].in.files = <<>> THEN p.images
                                     ELSE NewUrls(r)
              /\ Except(products', reqs[r].in.id) = Except(products, reqs[r].in.id)
        /\ (/\ ReceivedNow(r)
            /\ reqs'[r].ep = "PUT /products/:id"
            /\ reqs'[r].sid \in sessionStore
            /\ ~Incomplete(reqs'[r].in.body)
            /\ ~\E p \in products : p.id = reqs'[r].in.id)
           => /\ reqs'[r].pc = "done"
              /\ reqs'[r].res.status = 404
              /\ products' = products
              /\ cloudinary' = cloudinary]_vars

\* A PUT with two files was answered 200 for a product that had one image.
C20_Witness ==
    \E r \in Requests :
        /\ Answered(r, "PUT /products/:id")
        /\ reqs[r].res.status = 200
        /\ Len(reqs[r].in.files) = 2
        /\ Len(reqs[r].loc.oldImages) = 1
        /\ \E p \in products : p.id = reqs[r].in.id /\ p.images = NewUrls(r)

DeleteBannerPath == "DELETE /admin/banners/:id"

\* The law of DELETE /admin/banners/:id for the ids of `unknown` that no
\* banner has.
BannerDeleteLaw(r, unknown) ==
    /\ \* the record deletion is entered only from a remote deletion that returned
       (reqs'[r].pc = "deleteOne" /\ reqs[r].pc # "deleteOne") =>
          /\ reqs[r].pc = "destroy"
          /\ reqs[r].ep = DeleteBannerPath
          /\ "cloudinary" \notin faults
          /\ reqs[r].loc.banner.publicId \notin cloudinary'
          /\ banners' = banners
    /\ \* an unknown id: 404, no remote call
       (/\ ReceivedNow(r)
        /\ reqs'[r].ep = DeleteBannerPath
        /\ reqs'[r].sid \in sessionStore
        /\ "db" \notin faults
        /\ reqs'[r].in \in unknown
        /\ ~\E b \in banners : b._id = reqs'[r].in) =>
          /\ reqs'[r].pc = "done"
          /\ reqs'[r].res.status = 404
          /\ cloudinary' = cloudinary
          /\ banners' = banners
    /\ \* the record deletion fails after the remote deletion succeeded
       (/\ reqs[r].pc = "deleteOne"
        /\ reqs'[r] # reqs[r]
        /\ "db" \in faults) =>
          /\ reqs'[r].pc \in {"done", "hung"}
          /\ banners' = banners
          /\ cloudinary' = cloudinary
          /\ reqs[r].loc.banner.publicId \notin cloudinary'

C21_RemoteThenRecordWellFormed ==
    [][/\ \A r \in Requests : BannerDeleteLaw(r, ObjectIdParams \ {MalformedId})
       /\ \A b \in banners \ banners' :
             \E r \in Requests :
                /\ reqs[r].pc = "deleteOne"
                /\ reqs[r].loc.banner._id = b._id
                /\ reqs'[r].pc = "done"]_vars

\* A banner's record is stored while its image is gone from the image host
\* and the deletion that removed the image has ended.
C21_Witness ==
    \E r \in Requests, b \in banners :
        /\ reqs[r].ep = DeleteBannerPath
        /\ reqs[r].pc \in {"done", "hung"}
        /\ reqs[r].in = b._id
        /\ b.publicId \notin cloudinary

\* Endpoints whose handler queries the database before anything else, and
\* those among them that look a document up by its ObjectId.
QueriesFirst ==
    {"GET /products", "DELETE /products/:id", "GET /orders", "GET /orders/:id",
     "DELETE /orders/:id", "GET /banners", "GET /admin/banners",
     "DELETE /admin/banners/:id", "PATCH /admin/banners/:id/toggle"}
QueriesById ==
    {"GET /orders/:id", "DELETE /orders/:id", "DELETE /admin/banners/:id",
     "PATCH /admin/banners/:id/toggle"}

\* A call of request r's handler fails in this step: a query while the
\* database is down or with an id it cannot cast, a call to the image host
\* while it is down, or a comparison of a password that is no string.
CallFails(r) ==
    \/ /\ ReceivedNow(r)
       /\ reqs'[r].ep \in QueriesFirst
       /\ reqs'[r].ep \in GuardedEndpoints \cup {"GET /admin/banners"}
             => reqs'[r].sid \in sessionStore
       /\ \/ "db" \in faults
          \/ reqs'[r].ep \in QueriesById /\ reqs'[r].in = MalformedId
    \/ /\ ReceivedNow(r)
       /\ reqs'[r].ep = "POST /login"
       /\ reqs'[r].in.username = Str(ADMIN.username)
       /\ reqs'[r].in.password.t # "string"
    \/ /\ reqs[r].pc \in {"upload", "destroy"}
       /\ reqs'[r] # reqs[r]
       /\ "cloudinary" \in faults
    \/ /\ reqs[r].pc \in {"save", "update", "deleteOne"}
       /\ reqs'[r] # reqs[r]
       /\ "db" \in faults

FailureLaw(r, endpoints) ==
    (reqs'[r].ep \in endpoints /\ reqs'[r] # reqs[r]) =>
        /\ reqs'[r].pc # "hung"
        /\ CallFails(r) => reqs'[r].pc = "done" /\ reqs'[r].res.status = 500

AllEndpoints == Range(appStack) \ {"Multer Error Handler"}

WithoutTry ==
    {"POST /login", "GET /admin/banners", "DELETE /admin/banners/:id"}

\* C22: at every endpoint, a request whose handler's database call, image
\* host call or credential comparison fails ends with a 500 answer, and no
\* request is left without an answer.
C22_FailuresIsolated ==
    [][\A r \in Requests : FailureLaw(r, AllEndpoints)]_vars

\* The same for the endpoints whose handler wraps its calls in a try.
C22_FailuresIsolatedInTry ==
    [][\A r \in Requests : FailureLaw(r, AllEndpoints \ WithoutTry)]_vars

\* A banner upload was answered 500 while the image host was down.
C22_Witness ==
    \E r \in Requests :
        /\ Answered(r, "POST /admin/banners")
        /\ reqs[r].res.status = 500
        /\ "cloudinary" \in faults

\* What the other receipt endpoint draws for the same order.
OtherPage(ep, order, id) ==
    IF ep = "GET /orders/:id/receipt" THEN previewPdf(order, id)
    ELSE receiptPdf(order, id)

OtherDisposition(ep) ==
    IF ep = "GET /orders/:id/receipt" THEN "inline" ELSE "attachment"

\* A page without the horizontal positions of its operations.
Unplaced(pdf) == [i \in DOMAIN pdf |-> [pdf[i] EXCEPT !.x = 0]]

\* C23: for a stored order the two receipt endpoints answer the same
\* sequence of drawing operations, the same texts and values at the same
\* coordinates, and differ only in the disposition, attachment or inline.
C23_SamePage ==
    [][\A r \in Requests :
        (/\ reqs'[r] # reqs[r]
         /\ reqs'[r].ep \in ReceiptEndpoints
         /\ reqs'[r].pc = "done"
         /\ reqs'[r].res.status = 200)
        => \E o \in orders :
              /\ o._id = reqs'[r].in
              /\ reqs'[r].res.body.pdf = OtherPage(reqs'[r].ep, o, o._id)
              /\ reqs'[r].res.body.disposition # OtherDisposition(reqs'[r].ep)]_vars

\* The same up to the horizontal position of the operations.
C23_SamePageUpToX ==
    [][\A r \in Requests :
        (/\ reqs'[r] # reqs[r]
         /\ reqs'[r].ep \in ReceiptEndpoints
         /\ reqs'[r].pc = "done"
         /\ reqs'[r].res.status = 200)
        => \E o \in orders :
              /\ o._id = reqs'[r].in
              /\ Unplaced(reqs'[r].res.body.pdf)
                    = Unplaced(OtherPage(reqs'[r].ep, o, o._id))
              /\ reqs'[r].res.body.disposition # OtherDisposition(reqs'[r].ep)]_vars

C23_Witness ==
    \E r \in Requests :
        /\ Answered(r, "GET /orders/:id/receipt/preview")
        /\ reqs[r].res.status = 200
        /\ reqs[r].res.body.disposition = "inline"
        /\ Cardinality(orders) = 2

\* C24: the write of every successful toggle stores the negation of the flag
\* that is stored when it writes, so that no flip is lost, and of the last
\* three values stored for a banner the third equals the first: two toggles
\* of the same banner, however their reads and writes interleave, leave the
\* flag as it was before both.
C24_NoToggleLost ==
    [][\A r \in Requests :
        (/\ reqs[r].pc = "save"
         /\ reqs[r].ep = TogglePath
         /\ reqs'[r].pc = "done"
         /\ reqs'[r].res.status = 200)
        => \A b \in banners : b._id = reqs[r].in =>
              /\ \E b2 \in banners' : b2._id = b._id /\ b2.active = ~b.active
              /\ LET t == toggleTrace'[b._id] IN Len(t) = 3 => t[3] = t[1]]_vars

\* Two toggles of the same banner have both been answered 200.
C24_Witness ==
    \E r1, r2 \in Requests :
        /\ r1 # r2
        /\ Answered(r1, TogglePath) /\ Answered(r2, TogglePath)
        /\ reqs[r1].res.status = 200 /\ reqs[r2].res.status = 200
        /\ reqs[r1].in = reqs[r2].in
        /\ reqs[r1].res.body.active = reqs[r2].res.body.active

\* No request is under way.
Quiescent == \A r \in Requests : Free(r)

\* The images stored documents refer to that the image host does not hold.
DanglingImages ==
    UNION {{publicIdOfUrl(p.images[i]) : i \in DOMAIN p.images} : p \in products}
        \ cloudinary

DanglingBanners == {b.publicId : b \in banners} \ cloudinary

\* C25: whenever no request is under way, every image URL of every stored
\* product and the image of every stored banner is held by the image host.
C25_StoredImagesExist ==
    Quiescent => DanglingImages = {} /\ DanglingBanners = {}

\* A product with two images and a banner are stored and all their images
\* are on the image host.
C25_Witness ==
    /\ Quiescent
    /\ \E p \in products : Len(p.images) = 2
    /\ banners # {}
    /\ DanglingImages = {} /\ DanglingBanners = {}

\* How often id occurs in the queue.
Occurrences(queue, id) == Cardinality({i \in DOMAIN queue : queue[i] = id})

\* C26: a notification is queued only by the step that answers a
\* POST /orders request 201, for the order that step stored, and once; a
\* step that answers a POST /orders request 400 or 500 queues and attempts
\* nothing; an attempt is made only for the head of the queue, so that no
\* order is attempted more often than its request queued it.
C26_NotifiedOncePerStoredOrder ==
    [][/\ \A r \in Requests :
             (/\ reqs'[r] # reqs[r]
              /\ reqs'[r].ep = "POST /orders"
              /\ reqs'[r].pc = "done"
              /\ reqs'[r].res.status # 201)
             => /\ reqs'[r].res.status \in {400, 500}
                /\ immediates' = immediates
                /\ mailbox' = mailbox
       /\ immediates' # immediates =>
             \/ /\ immediates # <<>>
                /\ immediates' = Tail(immediates)
                /\ Attempted(mailbox') = Attempted(mailbox) \cup {Head(immediates)}
             \/ \E r \in Requests :
                   LET id == reqs'[r].res.body.orderId IN
                   /\ reqs[r].pc = "save"
                   /\ reqs'[r].pc = "done"
                   /\ reqs'[r].res.status = 201
                   /\ immediates' = Append(immediates, id)
                   /\ \E o \in orders' \ orders : o._id = id
                   /\ id \notin Attempted(mailbox)
                   /\ Occurrences(immediates', id) = 1
       /\ mailbox' # mailbox => immediates' # immediates]_vars

\* Of two requests with the same orderId one was answered 201 and notified,
\* the other 500 and not.
C26_Witness ==
    \E r1, r2 \in Requests :
        /\ Answered(r1, "POST /orders") /\ reqs[r1].res.status = 201
        /\ Answered(r2, "POST /orders") /\ reqs[r2].res.status = 500
        /\ reqs[r1].in.orderId = reqs[r2].in.orderId
        /\ Attempted(mailbox) = {reqs[r1].res.body.orderId}
        /\ immediates = <<>>

HasNullElement(cart) == \E i \in DOMAIN cart.items : cart.items[i].t = "null"

\* C27: a step that answers a POST /orders request 400 or 500 leaves the
\* orders collection as it is, and so does the one step such a request took
\* before; a request that lacks a required field or whose cartItems are
\* ill-formed is refused in the step that receives it, whether or not the
\* database can be reached.
C27_RefusedOrderChangesNothing ==
    [][\A r \in Requests :
        (reqs'[r] # reqs[r] /\ reqs'[r].ep = "POST /orders") =>
           /\ (reqs'[r].pc = "done" /\ reqs'[r].res.status \in {400, 500})
                 => orders' = orders
           /\ reqs'[r].pc = "save" => orders' = orders
           /\ orders' # orders => reqs'[r].pc = "done" /\ reqs'[r].res.status = 201
           /\ (/\ ReceivedNow(r)
               /\ \/ AbsentFields(reqs'[r].in) # {}
                  \/ IllFormedCart(reqs'[r].in.cartItems))
                 => /\ reqs'[r].pc = "done"
                    /\ IF AbsentFields(reqs'[r].in) = {}
                          /\ HasNullElement(reqs'[r].in.cartItems)
                       THEN reqs'[r].res.status \in {400, 500}
                            /\ reqs'[r].res.body # OrderFailed("db unavailable")
                       ELSE reqs'[r].res.status = 400]_vars

\* An order without quantity in one item was refused while the database was
\* down and an order was stored.
C27_Witness ==
    \E r \in Requests :
        /\ Answered(r, "POST /orders")
        /\ reqs[r].in.cartItems = Arr(<<Gloves, Countless, Mask>>)
        /\ reqs[r].res.status = 400
        /\ "db" \in faults
        /\ orders # {}

\* The body carries the number 0 as totalAmount, or as the price or the
\* quantity of an item.
ZeroValued(body) ==
    \/ body.totalAmount = Num(0)
    \/ /\ body.cartItems.t = "array"
       /\ \E i \in DOMAIN body.cartItems.items :
             \/ body.cartItems.items[i].price = Num(0)
             \/ body.cartItems.items[i].quantity = Num(0)

ZeroIsMissing(r) ==
    (/\ ReceivedNow(r)
     /\ reqs'[r].ep = "POST /orders"
     /\ ZeroValued(reqs'[r].in))
    => /\ reqs'[r].pc = "done"
       /\ reqs'[r].res.status = 400
       /\ orders' = orders

NonZero(o) ==
    /\ o.totalAmount # 0
    /\ \A i \in DOMAIN o.cartItems :
          o.cartItems[i].price # 0 /\ o.cartItems[i].quantity # 0

\* C28: a POST /orders request whose totalAmount is 0, or one of whose items
\* has price 0 or quantity 0, is answered 400 and not stored; and every
\* stored order has a non-zero totalAmount and a non-zero price and quantity
\* in every item.
C28_NoZeroStored ==
    [][/\ \A r \in Requests : ZeroIsMissing(r)
       /\ \A o \in orders' : NonZero(o)]_vars

\* The first half alone: the number 0 is treated as missing.
C28_ZeroIsRefused ==
    [][\A r \in Requests : ZeroIsMissing(r)]_vars

C28_Witness ==
    \E r \in Requests :
        /\ Answered(r, "POST /orders")
        /\ reqs[r].in.cartItems = Arr(<<Uncounted, Mask>>)
        /\ reqs[r].res.status = 400
        /\ orders # {}

====
